---------------------------- MODULE Spec2Model ----------------------------
(***************************************************************************)
(* A model of the map-reduce document pipeline of map-reduce.py: the      *)
(* splitter's bookkeeping, the Map Stage (document batching and           *)
(* per-segment processing), safe_invoke and the recursive Reduce Stage.   *)
(*                                                                         *)
(* A text is a sequence of characters.  The characters " " and "\n" are   *)
(* whitespace; every other character is part of a word.  A fixed word of  *)
(* a prompt template (such as "<output>") is written as one character,    *)
(* which str.split() counts exactly as it counts the word.                *)
(***************************************************************************)
EXTENDS Integers, Sequences, FiniteSets, TLC

---------------------------------------------------------------------------
(* Bounds of the model. *)

\* Largest number of segments the splitter produces for the whole corpus.
MaxSegments == 3

\* Largest number of backend calls of one run (the Reduce Stage of the code
\* has no cap of its own).
MaxQueries == 6

\* The values of --num_ctx (context_size) the runs are started with.
ContextSizes == {3, 6, 7, 100}

\* The values of --chunk_size (chunk_size, chunk_size_limit), in characters.
ChunkSizes == {2}

\* The file names of the corpus; two files of different directories may share
\* one.
FileNames == {"a.txt", "b.txt"}

---------------------------------------------------------------------------
(* Texts. *)

SP == " "
NL == "\n"

IsSpace(c) == c \in {SP, NL}

\* n template words separated by single spaces.
RECURSIVE Filler(_)
Filler(n) == IF n = 0 THEN << >>
             ELSE IF n = 1 THEN <<"w">>
             ELSE Filler(n - 1) \o <<SP, "w">>

\* A string of n characters holding no whitespace.
RECURSIVE Chars(_)
Chars(n) == IF n = 0 THEN << >> ELSE Chars(n - 1) \o <<"x">>

\* "\n".join(texts)
RECURSIVE JoinNL(_)
JoinNL(texts) ==
    IF Len(texts) = 0 THEN << >>
    ELSE IF Len(texts) = 1 THEN texts[1]
    ELSE JoinNL(SubSeq(texts, 1, Len(texts) - 1)) \o <<NL>> \o texts[Len(texts)]

\* str.strip(): the text without its leading and trailing whitespace.
strip(text) ==
    LET words == {i \in 1..Len(text) : ~IsSpace(text[i])}
    IN  IF words = {} THEN << >>
        ELSE LET lo == CHOOSE i \in words : \A j \in words : i <= j
                 hi == CHOOSE i \in words : \A j \in words : j <= i
             IN  SubSeq(text, lo, hi)

\* len(text.split()): the number of maximal runs of non-whitespace characters.
token_count(text) ==
    Cardinality({i \in 1..Len(text) :
                    ~IsSpace(text[i]) /\ (i = 1 \/ IsSpace(text[i - 1]))})

---------------------------------------------------------------------------
(* The question and the backend. *)

\* "Summarize the input context."
DefaultQueryWords == 4

question == Filler(DefaultQueryWords)

\* What chat_model.invoke does with one prompt: it raises, it returns an
\* object without content, or it returns content.
BackendResponses ==
    {[kind |-> "raises", content |-> << >>],
     [kind |-> "none", content |-> << >>],
     [kind |-> "text", content |-> << >>],
     [kind |-> "text", content |-> <<SP, NL>>],
     [kind |-> "text", content |-> <<"a">>],
     [kind |-> "text", content |-> <<"a", SP, "b">>]}

\* The test of the content made without strip().
InvokeFailsUnstripped(response) ==
    \/ response.kind = "raises"
    \/ response.kind = "none"
    \/ response.content = << >>

\* safe_invoke raises (or lets the backend's exception through).
InvokeFails(response) ==
    \/ response.kind = "raises"
    \/ response.kind = "none"
    \/ strip(response.content) = << >>

---------------------------------------------------------------------------
(* The state of one run of main. *)

VARIABLES
    pc,                     \* where main is
    context_size,           \* args.num_ctx
    chunk_size_limit,       \* args.chunk_size
    documents,              \* what crawl_directory_to_documents returned
    split_docs,             \* what split_documents returned
    groups,                 \* map_stage: groups
    multi_files,            \* map_stage: multi_files, in insertion order
    group_pos,              \* map_stage: groups already processed
    file_pos,               \* map_stage: multi-chunk files already processed
    chunk_pos,              \* map_stage: chunks of the current file processed
    multi_chunk_counter,    \* map_stage: multi_chunk_counter
    map_outputs,            \* map_stage: map_outputs
    llm_queries_completed,  \* global counter
    llm_total_queries,      \* global counter
    rs_level,               \* reduce_stage: depth of the current call
    rs_map_outputs,         \* reduce_stage: its parameter map_outputs
    rs_chunks,              \* reduce_stage: chunks
    rs_intermediate_results,\* reduce_stage: intermediate_results
    final_answer,           \* main: final_answer, once reduce_stage returned
    printed,                \* main: "Final Answer:" and the answer were printed
    output_file,            \* the file named by --output
    calls,                  \* history: the backend calls made so far
    last_invoke,            \* safe_invoke: the prompt and response of the last call
    crawl_files,            \* crawl_directory_to_documents: the files os.walk yields
    regex_patterns,         \* crawl_directory_to_documents: regex_patterns
    crawl_pos,              \* crawl_directory_to_documents: files already visited
    current_content,        \* process_file_with_gemini: current_content
    best_content,           \* process_file_with_gemini: best_content
    best_alert_count,       \* process_file_with_gemini: best_alert_count
    current_alert_count,    \* process_file_with_gemini: current_alert_count
    no_improvement_count,   \* process_file_with_gemini: no_improvement_count
    iteration,              \* process_file_with_gemini: iteration
    fixed_text,             \* process_file_with_gemini: fixed_text
    fixed_file,             \* the file at fixed_file_path
    prompt_file,            \* the file at prompt_file_path
    gemini_since_best,      \* history: Gemini calls since best_alert_count was last set
    evaluations,            \* history: the contents Vale evaluated, with their counts
    helper_result,          \* what process_file_with_gemini returned
    append,                 \* open-webui-knowledge.py main: args.append
    server_knowledge,       \* the knowledges on the Open-WebUI server
    server_attached,        \* the files attached to knowledges on the server
    existing_knowledge,     \* open-webui-knowledge.py main: existing_knowledge
    knowledge_id,           \* open-webui-knowledge.py main: knowledge_id
    upload_files,           \* open-webui-knowledge.py main: the files os.walk yields
    upload_pos,             \* open-webui-knowledge.py main: files already visited
    file_counter,           \* open-webui-knowledge.py main: file_counter
    file_id,                \* open-webui-knowledge.py main: file_id
    requests,               \* history: the REST calls made so far
    log_mode,               \* map-reduce-subdirs.py main: args.log
    user_options,           \* map-reduce-subdirs.py main: the optional options given
    subdirs,                \* map-reduce-subdirs.py main: subdirs, as listed
    item_pos,               \* map-reduce-subdirs.py main: items of the loop done
    cwd_files,              \* the output files in the current directory
    launches,               \* history: the child runs made so far
    reported                \* history: the items reported with "Output saved to"

vars == <<pc, context_size, chunk_size_limit, documents, split_docs, groups,
          multi_files, group_pos, file_pos, chunk_pos, multi_chunk_counter,
          map_outputs, llm_queries_completed, llm_total_queries, rs_level,
          rs_map_outputs, rs_chunks, rs_intermediate_results, final_answer,
          printed, output_file, calls, last_invoke,
          crawl_files, regex_patterns, crawl_pos, current_content,
          best_content, best_alert_count, current_alert_count,
          no_improvement_count, iteration, fixed_text, fixed_file,
          prompt_file, gemini_since_best, evaluations, helper_result,
          append, server_knowledge, server_attached, existing_knowledge,
          knowledge_id, upload_files, upload_pos, file_counter, file_id,
          requests, log_mode, user_options, subdirs, item_pos, cwd_files,
          launches, reported>>

inputVars == <<context_size, chunk_size_limit, documents>>
crawlVars == <<crawl_files, regex_patterns, crawl_pos>>
geminiVars == <<current_content, best_content, best_alert_count,
                current_alert_count, no_improvement_count, iteration,
                fixed_text, fixed_file, prompt_file, gemini_since_best,
                evaluations, helper_result>>
uploaderVars == <<append, server_knowledge, server_attached,
                  existing_knowledge, knowledge_id, upload_files, upload_pos,
                  file_counter, file_id, requests>>
subdirVars == <<log_mode, user_options, subdirs, item_pos, cwd_files,
                launches, reported>>
otherVars == <<crawlVars, geminiVars, uploaderVars, subdirVars>>
mapVars == <<groups, multi_files, group_pos, file_pos, chunk_pos,
             multi_chunk_counter, map_outputs>>
reduceVars == <<rs_level, rs_map_outputs, rs_chunks, rs_intermediate_results>>
mainVars == <<final_answer, printed, output_file>>

---------------------------------------------------------------------------
(* The corpus. *)

\* The documents a crawl may yield: two that fit one segment and, for every
\* segment count up to MaxSegments, two that need that many segments.
DocPool ==
    {[file_name |-> "a.txt", page_content |-> Chars(1)],
     [file_name |-> "b.txt", page_content |-> Chars(2)]}
    \cup {[file_name |-> f, page_content |-> Chars(2 * n)] :
             f \in FileNames, n \in 2..MaxSegments}

\* RecursiveCharacterTextSplitter.split_text with chunk_overlap 0 on a text
\* that holds none of the separators "\n\n", "\n", " ": hard cuts.
RECURSIVE split_text(_, _)
split_text(text, chunk_size) ==
    IF Len(text) <= chunk_size THEN <<text>>
    ELSE <<SubSeq(text, 1, chunk_size)>>
         \o split_text(SubSeq(text, chunk_size + 1, Len(text)), chunk_size)

\* The corpora of at most MaxSegments segments, documents in crawl order.
RECURSIVE Corpora(_, _)
Corpora(room, chunk_size) ==
    {<< >>} \cup
    UNION {{<<d>> \o rest :
               rest \in Corpora(room - Len(split_text(d.page_content, chunk_size)),
                                chunk_size)} :
           d \in {e \in DocPool :
                     Len(split_text(e.page_content, chunk_size)) <= room}}

\* metadata={"file_name": file, "file_path": file_path}; the path of the i-th
\* crawled file is written i.
WithPaths(docs) ==
    [i \in 1..Len(docs) |->
        [file_name |-> docs[i].file_name, file_path |-> i,
         page_content |-> docs[i].page_content]]

---------------------------------------------------------------------------
(* split_documents *)

\* The segments of one document, numbered from global_index + 1.
DocSegments(doc, chunks, global_index) ==
    [i \in 1..Len(chunks) |->
        [page_content |-> chunks[i],
         file_name |-> doc.file_name,
         file_path |-> doc.file_path,
         chunk_index |-> i,
         total_local_chunks |-> Len(chunks),
         global_chunk_index |-> global_index + i]]

RECURSIVE SplitLoop(_, _, _)
SplitLoop(docs, chunk_size, global_index) ==
    IF Len(docs) = 0 THEN << >>
    ELSE LET chunks == split_text(Head(docs).page_content, chunk_size)
         IN  DocSegments(Head(docs), chunks, global_index)
             \o SplitLoop(Tail(docs), chunk_size, global_index + Len(chunks))

\* global_total_chunks written inside the loop, where the count is the
\* running one.
split_documentsRunningTotal(docs, chunk_size) ==
    LET listed == SplitLoop(docs, chunk_size, 0)
    IN  [i \in 1..Len(listed) |->
            [page_content |-> listed[i].page_content,
             file_name |-> listed[i].file_name,
             file_path |-> listed[i].file_path,
             chunk_index |-> listed[i].chunk_index,
             total_local_chunks |-> listed[i].total_local_chunks,
             global_chunk_index |-> listed[i].global_chunk_index,
             global_total_chunks |-> listed[i].global_chunk_index]]

split_documents(docs, chunk_size) ==
    LET listed == SplitLoop(docs, chunk_size, 0)
        total_global == Len(listed)
    IN  [i \in 1..Len(listed) |->
            [page_content |-> listed[i].page_content,
             file_name |-> listed[i].file_name,
             file_path |-> listed[i].file_path,
             chunk_index |-> listed[i].chunk_index,
             total_local_chunks |-> listed[i].total_local_chunks,
             global_chunk_index |-> listed[i].global_chunk_index,
             global_total_chunks |-> total_global]]

---------------------------------------------------------------------------
(* map_stage: routing, batching and the prompts *)

\* The segments of documents that were split into exactly one segment.
complete_chunks(chunks) ==
    SelectSeq(chunks, LAMBDA chunk : chunk.total_local_chunks = 1)

\* The filter written with >= 1.
multi_chunksFromOne(chunks) ==
    SelectSeq(chunks, LAMBDA chunk : chunk.total_local_chunks >= 1)

\* The segments of documents that were split into two or more segments.
multi_chunks(chunks) ==
    SelectSeq(chunks, LAMBDA chunk : chunk.total_local_chunks > 1)

\* The loop that groups complete files into batches, and the append after it.
RECURSIVE GroupLoop(_, _, _, _, _)
GroupLoop(complete, limit, done, current_group, current_length) ==
    IF Len(complete) = 0
    THEN IF current_group # << >> THEN Append(done, current_group) ELSE done
    ELSE LET chunk == Head(complete)
             length == Len(chunk.page_content)
         IN  IF current_group # << >> /\ current_length + length > limit
             THEN GroupLoop(Tail(complete), limit, Append(done, current_group),
                            <<chunk>>, length)
             ELSE GroupLoop(Tail(complete), limit, done,
                            Append(current_group, chunk), current_length + length)

\* The loop with the ceiling tested against the length of the open group
\* alone, the length of the incoming file left out.
RECURSIVE GroupLoopLate(_, _, _, _, _)
GroupLoopLate(complete, limit, done, current_group, current_length) ==
    IF Len(complete) = 0
    THEN IF current_group # << >> THEN Append(done, current_group) ELSE done
    ELSE LET chunk == Head(complete)
             length == Len(chunk.page_content)
         IN  IF current_group # << >> /\ current_length > limit
             THEN GroupLoopLate(Tail(complete), limit, Append(done, current_group),
                                <<chunk>>, length)
             ELSE GroupLoopLate(Tail(complete), limit, done,
                                Append(current_group, chunk), current_length + length)

BuildGroupsLate(complete, limit) == GroupLoopLate(complete, limit, << >>, << >>, 0)

BuildGroups(complete, limit) == GroupLoop(complete, limit, << >>, << >>, 0)

\* multi_files[file_name] = [chunk]: the assignment in place of the append.
SetDefaultAssign(files, chunk) ==
    IF \E k \in 1..Len(files) : files[k].file_name = chunk.file_name
    THEN LET k == CHOOSE j \in 1..Len(files) : files[j].file_name = chunk.file_name
         IN  [files EXCEPT ![k].chunks_list = <<chunk>>]
    ELSE Append(files, [file_name |-> chunk.file_name, chunks_list |-> <<chunk>>])

\* multi_files.setdefault(file_name, []).append(chunk), the dict kept as the
\* sequence of its items in insertion order.
SetDefaultAppend(files, chunk) ==
    IF \E k \in 1..Len(files) : files[k].file_name = chunk.file_name
    THEN LET k == CHOOSE j \in 1..Len(files) : files[j].file_name = chunk.file_name
         IN  [files EXCEPT ![k].chunks_list = Append(@, chunk)]
    ELSE Append(files, [file_name |-> chunk.file_name, chunks_list |-> <<chunk>>])

RECURSIVE BuildMultiFiles(_, _)
BuildMultiFiles(multi, files) ==
    IF Len(multi) = 0 THEN files
    ELSE BuildMultiFiles(Tail(multi), SetDefaultAppend(files, Head(multi)))

\* chunks_list.sort(key=chunk_index): a stable sort.
RECURSIVE SortByChunkIndex(_)
SortByChunkIndex(chunks_list) ==
    IF Len(chunks_list) <= 1 THEN chunks_list
    ELSE LET least == CHOOSE i \in 1..Len(chunks_list) :
                 /\ \A j \in 1..Len(chunks_list) :
                        chunks_list[i].chunk_index <= chunks_list[j].chunk_index
                 /\ \A j \in 1..(i - 1) :
                        chunks_list[j].chunk_index # chunks_list[i].chunk_index
             rest == SubSeq(chunks_list, 1, least - 1)
                     \o SubSeq(chunks_list, least + 1, Len(chunks_list))
         IN  <<chunks_list[least]>> \o SortByChunkIndex(rest)

RECURSIVE SumLen(_)
SumLen(files) ==
    IF Len(files) = 0 THEN 0
    ELSE Len(Head(files).chunks_list) + SumLen(Tail(files))

\* Words of the grouped-files prompt: before the documents, before and after
\* the question.
GroupHeadWords == 31
GroupMidWords == 7
GroupTailWords == 13

RECURSIVE GroupDocuments(_)
GroupDocuments(group) ==
    IF Len(group) = 0 THEN << >>
    ELSE <<"Document", SP, "Source:", SP, Head(group).file_name, NL,
           "<document>", NL>>
         \o Head(group).page_content
         \o <<NL, "</document>", NL, NL>>
         \o GroupDocuments(Tail(group))

GroupPrompt(group, q) ==
    Filler(GroupHeadWords) \o <<NL, NL>> \o GroupDocuments(group)
    \o Filler(GroupMidWords) \o <<NL>> \o q \o <<NL>> \o Filler(GroupTailWords)

\* Words of the multi-chunk prompt: before the file name, between the file
\* name and the chunk, before and after the question.
ChunkHeadWords == 37
ChunkInfoWords == 17
ChunkMidWords == 8
ChunkTailWords == 14

ChunkPrompt(chunk, q) ==
    Filler(ChunkHeadWords) \o <<SP, chunk.file_name, NL>>
    \o Filler(ChunkInfoWords) \o <<NL>> \o chunk.page_content \o <<NL>>
    \o Filler(ChunkMidWords) \o <<NL>> \o q \o <<NL>> \o Filler(ChunkTailWords)

RECURSIVE GlobalIndexes(_)
GlobalIndexes(chunks) ==
    IF Len(chunks) = 0 THEN << >>
    ELSE <<Head(chunks).global_chunk_index>> \o GlobalIndexes(Tail(chunks))

---------------------------------------------------------------------------
(* reduce_stage: tagging, packing and the prompts *)

\* f"<output>\n{output}\n</output>"
TagOutput(output) == <<"<output>", NL>> \o output \o <<NL, "</output>">>

tagged_outputs(outputs) == [i \in 1..Len(outputs) |-> TagOutput(outputs[i])]

\* The loop that splits the tagged outputs into intermediate chunks, and the
\* append after it.  A chunk is the text the code builds; items, the
\* positions of the outputs joined into it, is kept beside it.
\* The test made without "current_chunk and".
ClosesChunkUnguarded(current_chunk, output, limit) ==
    token_count(current_chunk.text \o <<NL>> \o output) > limit

\* if current_chunk and token_count(current_chunk + "\n" + output) > context_size
ClosesChunk(current_chunk, output, limit) ==
    /\ current_chunk.text # << >>
    /\ token_count(current_chunk.text \o <<NL>> \o output) > limit

\* The output assigned where it should be joined.
ExtendChunkOverwrites(current_chunk, output, i) ==
    [text |-> output, items |-> <<i>>]

\* current_chunk = current_chunk + "\n" + output if current_chunk else output
ExtendChunk(current_chunk, output, i) ==
    [text |-> IF current_chunk.text # << >>
              THEN current_chunk.text \o <<NL>> \o output
              ELSE output,
     items |-> Append(current_chunk.items, i)]

RECURSIVE ChunkLoop(_, _, _, _, _)
ChunkLoop(tagged, i, limit, chunks, current_chunk) ==
    IF i > Len(tagged)
    THEN IF current_chunk.text # << >> THEN Append(chunks, current_chunk)
         ELSE chunks
    ELSE LET output == tagged[i]
         IN  IF ClosesChunk(current_chunk, output, limit)
             THEN ChunkLoop(tagged, i + 1, limit, Append(chunks, current_chunk),
                            [text |-> output, items |-> <<i>>])
             ELSE ChunkLoop(tagged, i + 1, limit, chunks,
                            ExtendChunk(current_chunk, output, i))

BuildChunks(tagged, limit) ==
    ChunkLoop(tagged, 1, limit, << >>, [text |-> << >>, items |-> << >>])

\* The single-output return left out.
SingleOutputNever(outputs) == FALSE

\* if len(map_outputs) == 1
SingleOutput(outputs) == Len(outputs) = 1

\* The comparison made with >=.
ExceedsContextOrFills(combined, limit) == token_count(combined) >= limit

\* if token_count(combined) > context_size
ExceedsContext(combined, limit) == token_count(combined) > limit

\* Words of the intermediate prompt: before the chunk, before and after the
\* question.
IntermediateHeadWords == 49
IntermediateMidWords == 9
IntermediateTailWords == 13

IntermediatePrompt(chunk, q) ==
    Filler(IntermediateHeadWords) \o <<NL>> \o chunk \o <<NL>>
    \o Filler(IntermediateMidWords) \o <<NL>> \o q \o <<NL>>
    \o Filler(IntermediateTailWords)

\* Words of the final prompt: before the combined outputs, before and after
\* the question.
FinalHeadWords == 49
FinalMidWords == 9
FinalTailWords == 14

FinalPrompt(combined, q) ==
    Filler(FinalHeadWords) \o <<NL>> \o combined \o <<NL>>
    \o Filler(FinalMidWords) \o <<NL>> \o q \o <<NL>>
    \o Filler(FinalTailWords)

---------------------------------------------------------------------------
(* The run. *)

NoAnswer == [returned |-> FALSE, text |-> << >>]

\* best_alert_count = None
NoCount == -1

\* A file that does not exist.
NoFile == [exists |-> FALSE, text |-> << >>]

\* process_file_with_gemini is not running: map-reduce.py does not call it.
GeminiIdle ==
    /\ current_content = << >>
    /\ best_content = << >>
    /\ best_alert_count = NoCount
    /\ current_alert_count = 0
    /\ no_improvement_count = 0
    /\ iteration = 0
    /\ fixed_text = << >>
    /\ fixed_file = NoFile
    /\ prompt_file = NoFile
    /\ gemini_since_best = 0
    /\ evaluations = << >>
    /\ helper_result = "none"

\* existing_knowledge = None, and file_id = None
NoKnowledge == 0
NoFileId == 0

\* open-webui-knowledge.py is not running.
UploaderIdle ==
    /\ append = FALSE
    /\ server_knowledge = {}
    /\ server_attached = {}
    /\ existing_knowledge = NoKnowledge
    /\ knowledge_id = NoKnowledge
    /\ upload_files = << >>
    /\ upload_pos = 0
    /\ file_counter = 0
    /\ file_id = NoFileId
    /\ requests = << >>

\* map-reduce-subdirs.py is not running.
SubdirsIdle ==
    /\ log_mode = FALSE
    /\ user_options = {}
    /\ subdirs = << >>
    /\ item_pos = 0
    /\ cwd_files = {}
    /\ launches = << >>
    /\ reported = << >>

\* The crawl is not running: main is past it, or another function is called.
CrawlIdle ==
    /\ crawl_files = << >>
    /\ regex_patterns = << >>
    /\ crawl_pos = 0

Init ==
    /\ pc = "split"
    /\ context_size \in ContextSizes
    /\ chunk_size_limit \in ChunkSizes
    /\ documents \in {WithPaths(docs) : docs \in Corpora(MaxSegments, chunk_size_limit)}
    /\ split_docs = << >>
    /\ groups = << >>
    /\ multi_files = << >>
    /\ group_pos = 0
    /\ file_pos = 0
    /\ chunk_pos = 0
    /\ multi_chunk_counter = 0
    /\ map_outputs = << >>
    /\ llm_queries_completed = 0
    /\ llm_total_queries = 0
    /\ rs_level = 0
    /\ rs_map_outputs = << >>
    /\ rs_chunks = << >>
    /\ rs_intermediate_results = << >>
    /\ final_answer = NoAnswer
    /\ printed = FALSE
    /\ output_file = [state |-> "absent", text |-> << >>]
    /\ calls = << >>
    /\ last_invoke = [tokens |-> 0, response |-> [kind |-> "none", content |-> << >>]]
    /\ CrawlIdle
    /\ GeminiIdle
    /\ UploaderIdle
    /\ SubdirsIdle

\* main: split_documents(documents, chunk_size=args.chunk_size, ...)
SplitDocuments ==
    /\ pc = "split"
    /\ split_docs' = split_documents(documents, chunk_size_limit)
    /\ pc' = "map_stage"
    /\ UNCHANGED <<otherVars, inputVars, mapVars, reduceVars, mainVars,
                   llm_queries_completed, llm_total_queries, calls, last_invoke>>

\* map_stage up to its first backend call: the routing, the groups, the
\* multi-chunk files and the estimate of the queries.
MapStagePlan ==
    /\ pc = "map_stage"
    /\ LET new_groups == BuildGroups(complete_chunks(split_docs), chunk_size_limit)
           new_files == BuildMultiFiles(multi_chunks(split_docs), << >>)
           expected_map_queries == Len(new_groups) + SumLen(new_files)
           expected_reduce_queries == IF expected_map_queries > 1 THEN 1 ELSE 0
       IN  /\ groups' = new_groups
           /\ multi_files' = new_files
           /\ llm_total_queries' = expected_map_queries + expected_reduce_queries
    /\ pc' = "map_calls"
    /\ UNCHANGED <<otherVars, inputVars, split_docs, group_pos, file_pos, chunk_pos,
                   multi_chunk_counter, map_outputs, reduceVars, mainVars,
                   llm_queries_completed, calls, last_invoke>>

\* safe_invoke invoking the backend a second time when the first response
\* is blank.
safe_invokeAgain(stage, index, units, prompt, response) ==
    LET call == [stage |-> stage, level |-> rs_level, index |-> index,
                 units |-> units, ok |-> ~InvokeFails(response)]
    IN  /\ Len(calls) < MaxQueries
        /\ calls' = IF InvokeFails(response) THEN calls \o <<call, call>>
                    ELSE Append(calls, call)
        /\ last_invoke' = [tokens |-> token_count(prompt), response |-> response]
        /\ llm_queries_completed' =
               IF InvokeFails(response) THEN llm_queries_completed
               ELSE llm_queries_completed + 1

\* safe_invoke with the counter moved before the test of the content.
safe_invokeCountsFirst(stage, index, units, prompt, response) ==
    /\ Len(calls) < MaxQueries
    /\ calls' = Append(calls, [stage |-> stage,
                               level |-> rs_level,
                               index |-> index,
                               units |-> units,
                               ok |-> ~InvokeFails(response)])
    /\ last_invoke' = [tokens |-> token_count(prompt), response |-> response]
    /\ llm_queries_completed' = llm_queries_completed + 1

\* safe_invoke(prompt) answered by response: the call is made, and the
\* counter of completed queries moves only if the content is not blank.
safe_invoke(stage, index, units, prompt, response) ==
    /\ Len(calls) < MaxQueries
    /\ calls' = Append(calls, [stage |-> stage,
                               level |-> rs_level,
                               index |-> index,
                               units |-> units,
                               ok |-> ~InvokeFails(response)])
    /\ last_invoke' = [tokens |-> token_count(prompt), response |-> response]
    /\ llm_queries_completed' =
           IF InvokeFails(response) THEN llm_queries_completed
           ELSE llm_queries_completed + 1

\* The loop over the multi-chunk files entered whether or not the loop over
\* the groups has finished.
GroupLoopFinishedOrNot == TRUE

\* The loop over the groups has finished: the loop over the multi-chunk
\* files comes after it.
GroupLoopFinished == group_pos = Len(groups)

\* One turn of "for i, group in enumerate(groups, start=1)".
MapGroupCall ==
    /\ pc = "map_calls"
    /\ group_pos < Len(groups)
    /\ LET group == groups[group_pos + 1]
       IN  \E response \in BackendResponses :
             /\ safe_invoke("map_group", group_pos + 1, GlobalIndexes(group),
                            GroupPrompt(group, question), response)
             /\ IF InvokeFails(response)
                THEN /\ pc' = "raised"
                     /\ UNCHANGED <<group_pos, map_outputs>>
                ELSE /\ pc' = "map_calls"
                     /\ group_pos' = group_pos + 1
                     /\ map_outputs' = Append(map_outputs, response.content)
    /\ UNCHANGED <<otherVars, inputVars, split_docs, groups, multi_files, file_pos,
                   chunk_pos, multi_chunk_counter, reduceVars, mainVars,
                   llm_total_queries>>

\* One turn of "for chunk in chunks_list" of the current multi-chunk file,
\* whose list is sorted when its turn begins.
MapChunkCall ==
    /\ pc = "map_calls"
    /\ GroupLoopFinished
    /\ file_pos < Len(multi_files)
    /\ LET chunks_list == SortByChunkIndex(multi_files[file_pos + 1].chunks_list)
           chunk == chunks_list[chunk_pos + 1]
           last == chunk_pos + 1 = Len(chunks_list)
       IN  \E response \in BackendResponses :
             /\ safe_invoke("map_chunk", multi_chunk_counter + 1,
                            <<chunk.global_chunk_index>>,
                            ChunkPrompt(chunk, question), response)
             /\ multi_chunk_counter' = multi_chunk_counter + 1
             /\ multi_files' = [multi_files EXCEPT
                                   ![file_pos + 1].chunks_list = chunks_list]
             /\ IF InvokeFails(response)
                THEN /\ pc' = "raised"
                     /\ UNCHANGED <<file_pos, chunk_pos, map_outputs>>
                ELSE /\ pc' = "map_calls"
                     /\ file_pos' = IF last THEN file_pos + 1 ELSE file_pos
                     /\ chunk_pos' = IF last THEN 0 ELSE chunk_pos + 1
                     /\ map_outputs' = Append(map_outputs, response.content)
    /\ UNCHANGED <<otherVars, inputVars, split_docs, groups, group_pos, reduceVars,
                   mainVars, llm_total_queries>>

\* map_stage returns and main calls reduce_stage without the test of
\* map_outputs.
MapStageReturnUntested ==
    /\ pc = "map_calls"
    /\ group_pos = Len(groups)
    /\ file_pos = Len(multi_files)
    /\ pc' = "reduce_stage"
    /\ rs_map_outputs' = map_outputs
    /\ UNCHANGED <<otherVars, inputVars, split_docs, mapVars, rs_level, rs_chunks,
                   rs_intermediate_results, mainVars, llm_queries_completed,
                   llm_total_queries, calls, last_invoke>>

\* map_stage returns; main leaves if there are no outputs and calls
\* reduce_stage otherwise.
MapStageReturn ==
    /\ pc = "map_calls"
    /\ group_pos = Len(groups)
    /\ file_pos = Len(multi_files)
    /\ IF map_outputs = << >>
       THEN /\ pc' = "no_outputs"
            /\ UNCHANGED rs_map_outputs
       ELSE /\ pc' = "reduce_stage"
            /\ rs_map_outputs' = map_outputs
    /\ UNCHANGED <<otherVars, inputVars, split_docs, mapVars, rs_level, rs_chunks,
                   rs_intermediate_results, mainVars, llm_queries_completed,
                   llm_total_queries, calls, last_invoke>>

\* reduce_stage from its entry to its first backend call or its return: the
\* single-output return, the tagging, the choice of the branch and, on the
\* splitting branch, the packing and the revised estimate.
ReduceStageEnter ==
    /\ pc = "reduce_stage"
    /\ IF SingleOutput(rs_map_outputs)
       THEN /\ final_answer' = [returned |-> TRUE, text |-> rs_map_outputs[1]]
            /\ pc' = "print"
            /\ UNCHANGED <<rs_chunks, rs_intermediate_results, llm_total_queries>>
       ELSE LET tagged == tagged_outputs(rs_map_outputs)
                combined == JoinNL(tagged)
            IN  IF ExceedsContext(combined, context_size)
                THEN LET chunks == BuildChunks(tagged, context_size)
                     IN  /\ rs_chunks' = chunks
                         /\ rs_intermediate_results' = << >>
                         /\ llm_total_queries' =
                                IF Len(chunks) > 1
                                THEN llm_total_queries + (Len(chunks) - 1)
                                ELSE llm_total_queries
                         /\ pc' = "reduce_chunks"
                         /\ UNCHANGED final_answer
                ELSE /\ pc' = "reduce_final"
                     /\ UNCHANGED <<rs_chunks, rs_intermediate_results,
                                    llm_total_queries, final_answer>>
    /\ UNCHANGED <<otherVars, inputVars, split_docs, mapVars, rs_level, rs_map_outputs,
                   printed, output_file, llm_queries_completed, calls,
                   last_invoke>>

\* One turn of "for i, chunk in enumerate(chunks, start=1)".
ReduceChunkCall ==
    /\ pc = "reduce_chunks"
    /\ Len(rs_intermediate_results) < Len(rs_chunks)
    /\ LET i == Len(rs_intermediate_results) + 1
           chunk == rs_chunks[i]
       IN  \E response \in BackendResponses :
             /\ safe_invoke("intermediate", i, chunk.items,
                            IntermediatePrompt(chunk.text, question), response)
             /\ IF InvokeFails(response)
                THEN /\ pc' = "raised"
                     /\ UNCHANGED rs_intermediate_results
                ELSE /\ pc' = "reduce_chunks"
                     /\ rs_intermediate_results' =
                            Append(rs_intermediate_results, response.content)
    /\ UNCHANGED <<otherVars, inputVars, split_docs, mapVars, rs_level, rs_map_outputs,
                   rs_chunks, mainVars, llm_total_queries>>

\* The recursive call given map_outputs again.
ReduceRecurseSameList ==
    /\ pc = "reduce_chunks"
    /\ Len(rs_intermediate_results) = Len(rs_chunks)
    /\ rs_level' = rs_level + 1
    /\ rs_chunks' = << >>
    /\ rs_intermediate_results' = << >>
    /\ pc' = "reduce_stage"
    /\ UNCHANGED <<otherVars, inputVars, split_docs, mapVars, mainVars, rs_map_outputs,
                   llm_queries_completed, llm_total_queries, calls, last_invoke>>

\* return reduce_stage(intermediate_results, question, model, context_size)
ReduceRecurse ==
    /\ pc = "reduce_chunks"
    /\ Len(rs_intermediate_results) = Len(rs_chunks)
    /\ rs_map_outputs' = rs_intermediate_results
    /\ rs_level' = rs_level + 1
    /\ rs_chunks' = << >>
    /\ rs_intermediate_results' = << >>
    /\ pc' = "reduce_stage"
    /\ UNCHANGED <<otherVars, inputVars, split_docs, mapVars, mainVars,
                   llm_queries_completed, llm_total_queries, calls, last_invoke>>

\* The final consolidation query and the return of its answer.
ReduceFinalCall ==
    /\ pc = "reduce_final"
    /\ LET combined == JoinNL(tagged_outputs(rs_map_outputs))
       IN  \E response \in BackendResponses :
             /\ safe_invoke("final", 1,
                            [i \in 1..Len(rs_map_outputs) |-> i],
                            FinalPrompt(combined, question), response)
             /\ IF InvokeFails(response)
                THEN /\ pc' = "raised"
                     /\ UNCHANGED final_answer
                ELSE /\ pc' = "print"
                     /\ final_answer' =
                            [returned |-> TRUE, text |-> response.content]
    /\ UNCHANGED <<otherVars, inputVars, split_docs, mapVars, reduceVars, printed,
                   output_file, llm_total_queries>>

\* print("Final Answer:"); print(final_answer)
PrintFinalAnswer ==
    /\ pc = "print"
    /\ printed' = TRUE
    /\ pc' = "output"
    /\ UNCHANGED <<otherVars, inputVars, split_docs, mapVars, reduceVars, final_answer,
                   output_file, llm_queries_completed, llm_total_queries, calls, last_invoke>>

\* --output was not given.
NoOutputFile ==
    /\ pc = "output"
    /\ pc' = "done"
    /\ UNCHANGED <<otherVars, inputVars, split_docs, mapVars, reduceVars, mainVars,
                   llm_queries_completed, llm_total_queries, calls, last_invoke>>

\* --output was given and the answer is written to it.
WriteOutputFile ==
    /\ pc = "output"
    /\ output_file' = [state |-> "written", text |-> final_answer.text]
    /\ pc' = "done"
    /\ UNCHANGED <<otherVars, inputVars, split_docs, mapVars, reduceVars, final_answer,
                   printed, llm_queries_completed, llm_total_queries, calls, last_invoke>>

\* The write made outside a try block: the exception leaves main.
WriteOutputRaises ==
    /\ pc = "output"
    /\ pc' = "raised"
    /\ UNCHANGED <<otherVars, inputVars, split_docs, mapVars, reduceVars, mainVars,
                   llm_queries_completed, llm_total_queries, calls, last_invoke>>

\* --output was given and opening or writing it raises: the error is logged.
WriteOutputFails ==
    /\ pc = "output"
    /\ pc' = "done_write_error"
    /\ UNCHANGED <<otherVars, inputVars, split_docs, mapVars, reduceVars, mainVars,
                   llm_queries_completed, llm_total_queries, calls, last_invoke>>

Next ==
    \/ SplitDocuments
    \/ MapStagePlan
    \/ MapGroupCall
    \/ MapChunkCall
    \/ MapStageReturn
    \/ ReduceStageEnter
    \/ ReduceChunkCall
    \/ ReduceRecurse
    \/ ReduceFinalCall
    \/ PrintFinalAnswer
    \/ NoOutputFile
    \/ WriteOutputFile
    \/ WriteOutputFails

Spec == Init /\ [][Next]_vars

---------------------------------------------------------------------------
(* What the properties below read off a state. *)

ReduceStages == {"intermediate", "final"}
MapStages == {"map_group", "map_chunk"}

LastCall == calls[Len(calls)]

\* The calls of the reduce_stage invocation now running (or last run).
LevelCalls ==
    SelectSeq(calls, LAMBDA c : c.stage \in ReduceStages /\ c.level = rs_level)

\* The control is inside the current reduce_stage invocation or after it.
InReduceLevel ==
    \/ pc \in {"reduce_stage", "reduce_chunks", "reduce_final", "print",
               "output", "done", "done_write_error"}
    \/ pc = "raised" /\ calls # << >> /\ LastCall.stage \in ReduceStages

\* The word count of the tagged outputs joined by "\n".
CombinedCount(outputs) == token_count(JoinNL(tagged_outputs(outputs)))

AllSpace(text) == \A i \in 1..Len(text) : IsSpace(text[i])

---------------------------------------------------------------------------
(* C1: reduce_stage terminates, every recursive call receiving strictly   *)
(* fewer answers than the invocation that made it.  Stated as the step    *)
(* property that decides it: whenever reduce_stage calls itself, the list *)
(* it passes is strictly shorter than the list it was given.              *)
C1_RecursionShrinks ==
    [][(pc = "reduce_chunks" /\ pc' = "reduce_stage")
          => Len(rs_map_outputs') < Len(rs_map_outputs)]_vars

(* C2: no prompt of the Reduce Stage counts more words than the budget,   *)
(* except an intermediate prompt for a batch of one answer that alone     *)
(* exceeds the budget.                                                    *)
C2_PromptWithinBudget ==
    (calls # << >> /\ LastCall.stage \in ReduceStages /\ LastCall.level = rs_level)
        => \/ last_invoke.tokens <= context_size
           \/ /\ LastCall.stage = "intermediate"
              /\ Len(LastCall.units) = 1
              /\ token_count(TagOutput(rs_map_outputs[LastCall.units[1]]))
                     > context_size

(* C3: with two or more answers whose joined text counts at most budget   *)
(* words, reduce_stage builds no intermediate batch and makes one backend *)
(* call, the final merge prompt; what it returns is that call's response. *)
C3_TerminalBranch ==
    (InReduceLevel /\ Len(rs_map_outputs) >= 2
        /\ CombinedCount(rs_map_outputs) <= context_size)
        => /\ rs_chunks = << >>
           /\ rs_intermediate_results = << >>
           /\ pc # "reduce_chunks"
           /\ Len(LevelCalls) <= 1
           /\ \A k \in 1..Len(LevelCalls) :
                 /\ LevelCalls[k].stage = "final"
                 /\ LevelCalls[k].units = [i \in 1..Len(rs_map_outputs) |-> i]
                 /\ last_invoke.tokens
                        = token_count(FinalPrompt(JoinNL(tagged_outputs(rs_map_outputs)),
                                                  question))
           /\ pc \in {"print", "output", "done", "done_write_error", "raised"}
                 => Len(LevelCalls) = 1
           /\ final_answer.returned
                 => /\ LevelCalls[1].ok
                    /\ final_answer.text = last_invoke.response.content

C3_Witness ==
    /\ pc = "print"
    /\ Len(rs_map_outputs) >= 2
    /\ CombinedCount(rs_map_outputs) = context_size
    /\ final_answer.returned
    /\ LastCall.stage = "final"

(* C4: reduce_stage given exactly one answer returns it unchanged, makes  *)
(* no backend call and leaves both query counters as they were.           *)
C4_SingleAnswer ==
    [][(pc = "reduce_stage" /\ Len(rs_map_outputs) = 1)
          => /\ final_answer' = [returned |-> TRUE, text |-> rs_map_outputs[1]]
             /\ pc' = "print"
             /\ calls' = calls
             /\ llm_queries_completed' = llm_queries_completed
             /\ llm_total_queries' = llm_total_queries]_vars

C4_Witness ==
    /\ pc = "print"
    /\ Len(rs_map_outputs) = 1
    /\ final_answer = [returned |-> TRUE, text |-> rs_map_outputs[1]]
    /\ Len(calls) = 1

(* C5: the packer of the Reduce Stage produces no empty batch, and every  *)
(* batch of two or more answers counts at most budget words; only a batch *)
(* of one answer may count more.                                          *)
C5_BatchesWithinBudget ==
    \A k \in 1..Len(rs_chunks) :
        /\ rs_chunks[k].items # << >>
        /\ rs_chunks[k].text # << >>
        /\ token_count(rs_chunks[k].text) >= 1
        /\ Len(rs_chunks[k].items) >= 2
              => token_count(rs_chunks[k].text) <= context_size

C5_Witness ==
    /\ pc = "reduce_chunks"
    /\ \E k \in 1..Len(rs_chunks) :
          /\ Len(rs_chunks[k].items) = 2
          /\ token_count(rs_chunks[k].text) = context_size
    /\ \E k \in 1..Len(rs_chunks) : Len(rs_chunks[k].items) = 1

RECURSIVE FlattenItems(_)
FlattenItems(chunks) ==
    IF Len(chunks) = 0 THEN << >>
    ELSE Head(chunks).items \o FlattenItems(Tail(chunks))

\* The tagged outputs at the given positions, joined as the code joins them.
JoinedItems(outputs, items) ==
    JoinNL([j \in 1..Len(items) |-> TagOutput(outputs[items[j]])])

(* C6: the packer partitions its input: the batches, one after the other, *)
(* hold the answers 1..n in input order, each exactly once; the text of a *)
(* batch is the join of its whole answers; an answer that alone exceeds   *)
(* the budget is a batch of its own.                                      *)
C6_BatchesPartition ==
    rs_chunks # << >>
        => /\ FlattenItems(rs_chunks) = [i \in 1..Len(rs_map_outputs) |-> i]
           /\ \A k \in 1..Len(rs_chunks) :
                 rs_chunks[k].text = JoinedItems(rs_map_outputs, rs_chunks[k].items)
           /\ \A i \in 1..Len(rs_map_outputs) :
                 token_count(TagOutput(rs_map_outputs[i])) > context_size
                    => \E k \in 1..Len(rs_chunks) : rs_chunks[k].items = <<i>>

C6_Witness ==
    /\ pc = "reduce_chunks"
    /\ Len(rs_chunks) = 3
    /\ \E k \in 1..Len(rs_chunks) :
          /\ rs_chunks[k].items = <<k>>
          /\ token_count(rs_chunks[k].text) > context_size
    /\ \E k \in 1..Len(rs_chunks) : token_count(rs_chunks[k].text) <= context_size

\* What holds while reduce_stage is in its loop over the batches.
C7_InLoop ==
    /\ Len(rs_chunks) >= 2
    /\ CombinedCount(rs_map_outputs) > context_size
    /\ Len(rs_intermediate_results) <= Len(rs_chunks)
    /\ Len(LevelCalls) = Len(rs_intermediate_results)
    /\ \A k \in 1..Len(LevelCalls) :
          /\ LevelCalls[k].stage = "intermediate"
          /\ LevelCalls[k].index = k
          /\ LevelCalls[k].units = rs_chunks[k].items
          /\ LevelCalls[k].ok
    /\ rs_intermediate_results # << >>
          => rs_intermediate_results[Len(rs_intermediate_results)]
                 = last_invoke.response.content

\* What the steps of the loop and the recursive call do.
C7_Step ==
    /\ (pc = "reduce_chunks" /\ pc' = "reduce_chunks")
          => /\ rs_chunks' = rs_chunks
             /\ rs_intermediate_results'
                    = Append(rs_intermediate_results, last_invoke'.response.content)
    /\ (pc = "reduce_chunks" /\ pc' = "reduce_stage")
          => /\ Len(rs_intermediate_results) = Len(rs_chunks)
             /\ rs_map_outputs' = rs_intermediate_results
             /\ calls' = calls

(* C7: on the splitting branch (two or more answers, joined count over    *)
(* budget) the packer yields at least 2 batches, the backend is called    *)
(* once per batch in batch order, and the recursive call receives the     *)
(* responses, one per batch, in that order.                               *)
C7_SplittingBranch ==
    /\ [](pc = "reduce_chunks" => C7_InLoop)
    /\ []((InReduceLevel /\ pc # "reduce_stage" /\ Len(rs_map_outputs) >= 2
             /\ CombinedCount(rs_map_outputs) > context_size)
            => pc \in {"reduce_chunks", "raised"})
    /\ [][C7_Step]_vars

C7_Witness ==
    /\ pc = "reduce_stage"
    /\ rs_level = 1
    /\ Len(map_outputs) = 3
    /\ Len(rs_map_outputs) = 2
    /\ Len(calls) = 5

(* C8: a backend call that returns no content, or content that is empty   *)
(* or all whitespace, makes safe_invoke raise: the run is aborted, no     *)
(* answer is returned or printed and no output file is written.           *)
C8_BlankResponseAborts ==
    (calls # << >> /\ \/ last_invoke.response.kind = "none"
                      \/ /\ last_invoke.response.kind = "text"
                         /\ AllSpace(last_invoke.response.content))
        => /\ pc = "raised"
           /\ ~LastCall.ok
           /\ ~final_answer.returned
           /\ ~printed
           /\ output_file.state = "absent"

C8_Witness ==
    /\ pc = "raised"
    /\ LastCall.stage = "final"
    /\ last_invoke.response = [kind |-> "text", content |-> <<SP, NL>>]

(* C9: nothing is retried: no unit of work and no reduction batch is sent *)
(* to the backend twice, a failed call is the last call of the run, and   *)
(* after a failure in the Map Stage the Reduce Stage never starts.        *)
C9_NoRetries ==
    /\ \A i, j \in 1..Len(calls) :
          i < j => /\ <<calls[i].stage, calls[i].level, calls[i].index>>
                        # <<calls[j].stage, calls[j].level, calls[j].index>>
                   /\ (calls[i].stage \in MapStages /\ calls[j].stage \in MapStages)
                         => \A a \in 1..Len(calls[i].units) :
                              \A b \in 1..Len(calls[j].units) :
                                 calls[i].units[a] # calls[j].units[b]
    /\ \A i \in 1..(Len(calls) - 1) : calls[i].ok
    /\ (\E i \in 1..Len(calls) : ~calls[i].ok) => pc = "raised"
    /\ (\E i \in 1..Len(calls) : ~calls[i].ok /\ calls[i].stage \in MapStages)
          => /\ rs_map_outputs = << >>
             /\ \A j \in 1..Len(calls) : calls[j].stage \in MapStages

C9_Witness ==
    /\ pc = "raised"
    /\ Len(calls) = 3
    /\ LastCall.stage = "map_chunk"
    /\ ~LastCall.ok
    /\ Len(map_outputs) = 2

\* How many places of the groups, and of the multi-chunk lists, hold the
\* segment with the global index g.
InGroups(g) ==
    Cardinality({kj \in (1..Len(groups)) \X (1..Len(split_docs)) :
                    /\ kj[2] <= Len(groups[kj[1]])
                    /\ groups[kj[1]][kj[2]].global_chunk_index = g})

InMultiFiles(g) ==
    Cardinality({kj \in (1..Len(multi_files)) \X (1..Len(split_docs)) :
                    /\ kj[2] <= Len(multi_files[kj[1]].chunks_list)
                    /\ multi_files[kj[1]].chunks_list[kj[2]].global_chunk_index = g})

\* The number of segments of the document the segment comes from.
SegmentsOfDocument(seg) ==
    Cardinality({t \in 1..Len(split_docs) :
                    split_docs[t].file_path = seg.file_path})

\* The stages of the Map Stage calls whose prompt holds the segment g.
CallsHolding(g) ==
    SelectSeq(calls, LAMBDA c : /\ c.stage \in MapStages
                                /\ \E a \in 1..Len(c.units) : c.units[a] = g)

(* C10: map_stage routes every segment to exactly one path: the segment   *)
(* of a document split into one segment is in one group and in no         *)
(* multi-chunk list, a segment of a document split into two or more is in *)
(* one multi-chunk list and in no group; a segment is sent to the backend *)
(* at most once, and exactly once, by its own path, when map_stage ends.  *)
C10_Routing ==
    pc \notin {"split", "map_stage"}
        => \A t \in 1..Len(split_docs) :
              LET seg == split_docs[t]
                  g == seg.global_chunk_index
                  path == IF SegmentsOfDocument(seg) = 1 THEN "map_group"
                          ELSE "map_chunk"
                  held == CallsHolding(g)
              IN  /\ InGroups(g) = (IF path = "map_group" THEN 1 ELSE 0)
                  /\ InMultiFiles(g) = (IF path = "map_chunk" THEN 1 ELSE 0)
                  /\ Len(held) <= 1
                  /\ \A k \in 1..Len(held) : held[k].stage = path
                  /\ pc \notin {"map_calls", "raised"} => Len(held) = 1

C10_Witness ==
    /\ pc = "reduce_stage"
    /\ rs_level = 0
    /\ \E t \in 1..Len(split_docs) : SegmentsOfDocument(split_docs[t]) = 1
    /\ \E t \in 1..Len(split_docs) : SegmentsOfDocument(split_docs[t]) = 2
    /\ Len(calls) = 3

---------------------------------------------------------------------------
(* map_stage on its own: the function called with bounded arguments.      *)

\* The most segments of a list of chunks given to map_stage.
MaxMapSegments == 4

\* The arguments of map_stage: the segments of a corpus split with
\* chunk_size, and the ceiling chunk_size_limit.  main passes the same
\* number for both; the function takes any pair, and a ceiling under the
\* size the corpus was split with gives complete files above the ceiling.
\* The last one is three files of 10, 10 and 30 characters under 25.
MapInputs ==
    {[chunk_size |-> 2, limit |-> l, docs |-> c] :
        l \in {1, 2}, c \in Corpora(MaxMapSegments, 2)}
    \cup {[chunk_size |-> 4, limit |-> 2, docs |-> c] :
             c \in Corpora(MaxMapSegments - 1, 4)}
    \cup {[chunk_size |-> 25, limit |-> 25,
           docs |-> <<[file_name |-> "a.txt", page_content |-> Chars(10)],
                      [file_name |-> "b.txt", page_content |-> Chars(10)],
                      [file_name |-> "b.txt", page_content |-> Chars(30)]>>]}

\* map_outputs = map_stage(split_docs, query, model, chunk_size_limit)
MapInit ==
    /\ pc = "map_stage"
    /\ context_size = 100
    /\ \E input \in MapInputs :
          /\ chunk_size_limit = input.limit
          /\ documents = WithPaths(input.docs)
          /\ split_docs = split_documents(WithPaths(input.docs), input.chunk_size)
    /\ groups = << >>
    /\ multi_files = << >>
    /\ group_pos = 0
    /\ file_pos = 0
    /\ chunk_pos = 0
    /\ multi_chunk_counter = 0
    /\ map_outputs = << >>
    /\ llm_queries_completed = 0
    /\ llm_total_queries = 0
    /\ rs_level = 0
    /\ rs_map_outputs = << >>
    /\ rs_chunks = << >>
    /\ rs_intermediate_results = << >>
    /\ final_answer = NoAnswer
    /\ printed = FALSE
    /\ output_file = [state |-> "absent", text |-> << >>]
    /\ calls = << >>
    /\ last_invoke = [tokens |-> 0, response |-> [kind |-> "none", content |-> << >>]]
    /\ CrawlIdle
    /\ GeminiIdle
    /\ UploaderIdle
    /\ SubdirsIdle

MapNext ==
    \/ MapStagePlan
    \/ MapGroupCall
    \/ MapChunkCall
    \/ MapStageReturn

MapSpec == MapInit /\ [][MapNext]_vars

RECURSIVE Concat(_)
Concat(seqs) ==
    IF Len(seqs) = 0 THEN << >> ELSE Head(seqs) \o Concat(Tail(seqs))

\* The combined character length of the files of a group.
RECURSIVE GroupLength(_)
GroupLength(group) ==
    IF Len(group) = 0 THEN 0
    ELSE Len(Head(group).page_content) + GroupLength(Tail(group))

(* C11: map_stage packs the complete documents greedily in crawl order:   *)
(* the groups, one after the other, are the complete documents in input   *)
(* order, each exactly once; no group is empty; the combined character    *)
(* length of every group of two or more documents is at most the ceiling; *)
(* a document that alone exceeds the ceiling is a group of its own.       *)
C11_GreedyGroups ==
    pc # "map_stage"
        => /\ Concat(groups) = complete_chunks(split_docs)
           /\ \A k \in 1..Len(groups) : groups[k] # << >>
           /\ \A k \in 1..Len(groups) :
                 Len(groups[k]) >= 2 => GroupLength(groups[k]) <= chunk_size_limit
           /\ \A k \in 1..Len(groups) : \A j \in 1..Len(groups[k]) :
                 Len(groups[k][j].page_content) > chunk_size_limit
                     => Len(groups[k]) = 1

C11_Witness ==
    /\ pc = "map_calls"
    /\ Len(groups) = 2
    /\ \E k \in 1..Len(groups) : Len(groups[k]) >= 2
    /\ \E k \in 1..Len(groups) :
          /\ Len(groups[k]) = 1
          /\ Len(groups[k][1].page_content) > chunk_size_limit

\* The segments sent by the multi-chunk calls made so far, in call order.
MultiChunkUnits ==
    Concat([k \in 1..Len(SelectSeq(calls, LAMBDA c : c.stage = "map_chunk")) |->
               SelectSeq(calls, LAMBDA c : c.stage = "map_chunk")[k].units])

(* C12: the multi-chunk answers of map_stage are in document-then-segment *)
(* order: the segments of one document are answered one after the other   *)
(* in ascending local index, the documents in the order they are first    *)
(* met, also when two multi-chunk documents of different directories have *)
(* the same file name.  The multi-chunk calls made so far send a prefix of *)
(* the multi-chunk segments as split_documents listed them.               *)
C12_DocumentThenSegment ==
    LET expected == GlobalIndexes(multi_chunks(split_docs))
    IN  /\ Len(MultiChunkUnits) <= Len(expected)
        /\ MultiChunkUnits = SubSeq(expected, 1, Len(MultiChunkUnits))

\* The calls of one Map Stage path made so far, and those that were answered.
PathCalls(stage) == SelectSeq(calls, LAMBDA c : c.stage = stage)
AnsweredCalls(stage) == SelectSeq(calls, LAMBDA c : c.stage = stage /\ c.ok)

\* The order of the calls and of the answers in a state.
C13_Order ==
    /\ \A i \in 1..Len(calls) : \A j \in (i + 1)..Len(calls) :
          ~(calls[i].stage = "map_chunk" /\ calls[j].stage = "map_group")
    /\ PathCalls("map_chunk") # << >>
          => Len(AnsweredCalls("map_group")) = Len(groups)
    /\ pc \in {"map_stage", "map_calls", "raised", "reduce_stage", "no_outputs"}
          => Len(map_outputs) = Len(AnsweredCalls("map_group"))
                                + Len(AnsweredCalls("map_chunk"))

\* map_outputs only grows at its end, by the answer of the call just made.
C13_Step ==
    map_outputs' # map_outputs
        => /\ map_outputs' = Append(map_outputs, last_invoke'.response.content)
           /\ calls' # calls
           /\ calls'[Len(calls')].ok

(* C13: in the result of map_stage every batched-group answer precedes    *)
(* every multi-chunk answer, whatever the order of the complete and the   *)
(* multi-chunk documents in the crawl: no group call follows a multi-     *)
(* chunk call, the first multi-chunk call is made when every group has    *)
(* been answered, and every answer is appended at the end of map_outputs  *)
(* when its call returns.                                                 *)
C13_GroupsBeforeSegments == [](C13_Order) /\ [][C13_Step]_vars

C13_Witness ==
    /\ pc = "reduce_stage"
    /\ \E t \in 1..Len(split_docs) : \E u \in (t + 1)..Len(split_docs) :
          /\ split_docs[t].total_local_chunks > 1
          /\ split_docs[u].total_local_chunks = 1
    /\ calls[1].stage = "map_group"
    /\ calls[Len(calls)].stage = "map_chunk"
    /\ Len(map_outputs) = Len(groups) + Len(multi_chunks(split_docs))

\* map_stage returned its list to main.
MapStageReturned == pc \in {"reduce_stage", "no_outputs"}

(* C14: on success map_stage makes exactly one backend call per unit of   *)
(* work and returns as many answers as there are groups of complete       *)
(* documents plus segments of multi-chunk documents: every group is sent  *)
(* once, in order, every multi-chunk segment is sent once, every call is  *)
(* answered.  Documents of 10, 10 and 30 characters under a chunk size of *)
(* 25 give one group of the two small ones and, with the segments of the  *)
(* third, three answers.                                                  *)
C14_OneCallPerUnit ==
    MapStageReturned
        => LET segments == GlobalIndexes(multi_chunks(split_docs))
               group_calls == PathCalls("map_group")
           IN  /\ Len(map_outputs) = Len(groups) + Len(segments)
               /\ Len(calls) = Len(groups) + Len(segments)
               /\ \A k \in 1..Len(calls) : calls[k].ok
               /\ Len(group_calls) = Len(groups)
               /\ \A k \in 1..Len(group_calls) :
                     /\ group_calls[k].index = k
                     /\ group_calls[k].units = GlobalIndexes(groups[k])
               /\ Len(MultiChunkUnits) = Len(segments)
               /\ \A k \in 1..Len(segments) :
                     \E j \in 1..Len(MultiChunkUnits) :
                        MultiChunkUnits[j] = segments[k]
               /\ chunk_size_limit = 25
                     => /\ Len(groups) = 1
                        /\ Len(groups[1]) = 2
                        /\ Len(segments) = 2
                        /\ Len(map_outputs) = 3

C14_Witness ==
    /\ pc = "reduce_stage"
    /\ chunk_size_limit = 25
    /\ Len(documents) = 3
    /\ Len(documents[3].page_content) = 30
    /\ Len(map_outputs) = 3

(* C15: in the list split_documents returns, global_total_chunks is the   *)
(* same on every segment and is the length of the list;                   *)
(* global_chunk_index runs 1, 2, ... through the list without gap or      *)
(* repeat; within each document chunk_index runs from 1 to                *)
(* total_local_chunks in the order of the pieces of the text, and         *)
(* total_local_chunks is the number of segments of that document.         *)
C15_SegmentNumbering ==
    pc # "split"
        => \A t \in 1..Len(split_docs) :
              LET seg == split_docs[t]
                  earlier == {u \in 1..(t - 1) :
                                 split_docs[u].file_path = seg.file_path}
                  pieces == split_text(documents[seg.file_path].page_content,
                                       chunk_size_limit)
              IN  /\ seg.global_total_chunks = Len(split_docs)
                  /\ seg.global_chunk_index = t
                  /\ seg.chunk_index = Cardinality(earlier) + 1
                  /\ seg.chunk_index \in 1..seg.total_local_chunks
                  /\ seg.total_local_chunks = SegmentsOfDocument(seg)
                  /\ seg.total_local_chunks = Len(pieces)
                  /\ seg.page_content = pieces[seg.chunk_index]
                  /\ \A u \in earlier : \A v \in u..t :
                        split_docs[v].file_path = seg.file_path

C15_Witness ==
    /\ pc = "map_stage"
    /\ Len(documents) = 2
    /\ Len(split_docs) = 3
    /\ split_docs[1].total_local_chunks = 2
    /\ split_docs[3].total_local_chunks = 1

---------------------------------------------------------------------------
(* crawl_directory_to_documents *)

\* The most files os.walk yields.
MaxFiles == 3

\* The pipeline has not started: every variable of main past the crawl has
\* its first value.
PipelineIdle ==
    /\ context_size = 100
    /\ chunk_size_limit = 2
    /\ split_docs = << >>
    /\ groups = << >>
    /\ multi_files = << >>
    /\ group_pos = 0
    /\ file_pos = 0
    /\ chunk_pos = 0
    /\ multi_chunk_counter = 0
    /\ map_outputs = << >>
    /\ llm_queries_completed = 0
    /\ llm_total_queries = 0
    /\ rs_level = 0
    /\ rs_map_outputs = << >>
    /\ rs_chunks = << >>
    /\ rs_intermediate_results = << >>
    /\ final_answer = NoAnswer
    /\ printed = FALSE
    /\ output_file = [state |-> "absent", text |-> << >>]
    /\ calls = << >>
    /\ last_invoke = [tokens |-> 0, response |-> [kind |-> "none", content |-> << >>]]

\* What extract_text does with one file: it raises, or it returns a text,
\* which may be empty.
Extractions ==
    {[kind |-> "raises", text |-> << >>],
     [kind |-> "text", text |-> << >>],
     [kind |-> "text", text |-> Chars(1)]}

\* The patterns of --path: the empty pattern, found in every path, and one
\* per file name, found in the paths that end with it.
Regexes == {"", "a.txt", "b.txt"}

\* regex.search(file_path)
Search(regex, file) == regex = "" \/ regex = file.file_name

\* The files of the walk, in walk order, and what extraction does with each.
WalkedFiles ==
    UNION {[1..n -> [file_name : FileNames, extraction : Extractions]] :
              n \in 0..MaxFiles}

\* main: [re.compile(pattern.strip()) for pattern in args.path.split(',')],
\* a list of one pattern at least.
PatternLists == UNION {[1..n -> Regexes] : n \in 1..2}

\* The test written with all() in place of any().
SkipsFileUnlessAll(patterns, file) ==
    /\ patterns # << >>
    /\ ~(\A k \in 1..Len(patterns) : Search(patterns[k], file))

\* if regex_patterns and not any(regex.search(file_path) for regex in ...)
SkipsFile(patterns, file) ==
    /\ patterns # << >>
    /\ ~(\E k \in 1..Len(patterns) : Search(patterns[k], file))

\* The try block: what it appends to documents.  The path of the i-th
\* visited file is written i.
Ingested(file, file_path) ==
    IF file.extraction.kind = "raises" THEN << >>
    ELSE IF file.extraction.text # << >>
         THEN <<[file_name |-> file.file_name, file_path |-> file_path,
                 page_content |-> file.extraction.text]>>
         ELSE << >>

CrawlInit ==
    /\ pc = "crawl"
    /\ documents = << >>
    /\ PipelineIdle
    /\ crawl_files \in WalkedFiles
    /\ regex_patterns \in PatternLists
    /\ crawl_pos = 0
    /\ GeminiIdle
    /\ UploaderIdle
    /\ SubdirsIdle

\* One turn of "for file in files" of the walk.
CrawlFile ==
    /\ pc = "crawl"
    /\ crawl_pos < Len(crawl_files)
    /\ LET file == crawl_files[crawl_pos + 1]
       IN  documents' = IF SkipsFile(regex_patterns, file) THEN documents
                        ELSE documents \o Ingested(file, crawl_pos + 1)
    /\ crawl_pos' = crawl_pos + 1
    /\ UNCHANGED <<pc, context_size, chunk_size_limit, split_docs, mapVars,
                   reduceVars, mainVars, llm_queries_completed,
                   llm_total_queries, calls, last_invoke, crawl_files,
                   regex_patterns, geminiVars, uploaderVars, subdirVars>>

\* return documents
CrawlReturn ==
    /\ pc = "crawl"
    /\ crawl_pos = Len(crawl_files)
    /\ pc' = "crawled"
    /\ UNCHANGED <<otherVars, inputVars, split_docs, mapVars, reduceVars,
                   mainVars, llm_queries_completed, llm_total_queries, calls,
                   last_invoke>>

CrawlNext ==
    \/ CrawlFile
    \/ CrawlReturn

CrawlSpec == CrawlInit /\ [][CrawlNext]_vars

\* The i-th visited file matches a pattern and its extraction gave a text
\* that is not empty.
Qualifies(i) ==
    /\ \E k \in 1..Len(regex_patterns) : Search(regex_patterns[k], crawl_files[i])
    /\ crawl_files[i].extraction.kind = "text"
    /\ crawl_files[i].extraction.text # << >>

\* One document for each qualifying file of the first n, in walk order.
RECURSIVE QualifyingDocuments(_)
QualifyingDocuments(n) ==
    IF n = 0 THEN << >>
    ELSE QualifyingDocuments(n - 1)
         \o (IF Qualifies(n)
             THEN <<[file_name |-> crawl_files[n].file_name, file_path |-> n,
                     page_content |-> crawl_files[n].extraction.text]>>
             ELSE << >>)

(* C17: crawl_directory_to_documents returns, in walk order, exactly one  *)
(* document for each visited file whose path matches at least one of the  *)
(* patterns and whose extraction succeeded with a text that is not empty; *)
(* an extraction that raises or gives no text leaves out that file only:  *)
(* the crawl goes on to the last file and keeps the documents collected.  *)
C17_CrawlDocuments ==
    pc \in {"crawl", "crawled"}
        => /\ documents = QualifyingDocuments(crawl_pos)
           /\ pc = "crawled" => crawl_pos = Len(crawl_files)

C17_Witness ==
    /\ pc = "crawled"
    /\ Len(crawl_files) = 3
    /\ Len(regex_patterns) = 2
    /\ ~Search(regex_patterns[1], crawl_files[1])
    /\ crawl_files[2].extraction.kind = "raises"
    /\ Len(documents) = 2
    /\ documents[1].file_path = 1
    /\ documents[2].file_path = 3

---------------------------------------------------------------------------
(* C18: a failure to write the output file after a successful reduction   *)
(* is not fatal: main ends normally, with the error logged, after the     *)
(* final answer was printed; no exception leaves main once reduce_stage   *)
(* has returned its answer.                                               *)
C18_WriteFailureNotFatal ==
    /\ pc = "done_write_error"
          => /\ final_answer.returned
             /\ printed
             /\ output_file.state = "absent"
    /\ pc = "raised"
          => /\ ~final_answer.returned
             /\ ~printed
             /\ calls # << >>
             /\ ~LastCall.ok

C18_Witness ==
    /\ pc = "done_write_error"
    /\ printed
    /\ final_answer.returned
    /\ Len(calls) = 3

---------------------------------------------------------------------------
\* The counter is the number of the calls that returned content.
C19_Count ==
    llm_queries_completed = Len(SelectSeq(calls, LAMBDA c : c.ok))

\* A call that returns content adds one to the counter, any other step
\* leaves it; once map_stage has set the estimate no step lowers it.
C19_Step ==
    /\ llm_queries_completed' =
           IF calls' # calls /\ calls'[Len(calls')].ok
           THEN llm_queries_completed + 1
           ELSE llm_queries_completed
    /\ pc \notin {"split", "map_stage"}
          => llm_total_queries' >= llm_total_queries

(* C19: at every point llm_queries_completed is the number of backend     *)
(* calls that returned non-blank content so far: a successful call adds   *)
(* exactly one, a failed call adds nothing; once the Map Stage has set    *)
(* llm_total_queries, the Reduce Stage only raises it, never lowers it.   *)
C19_Counters == [](C19_Count) /\ [][C19_Step]_vars

C19_Witness ==
    /\ pc = "raised"
    /\ rs_level = 1
    /\ llm_queries_completed = 4
    /\ Len(calls) = 5
    /\ llm_total_queries > Len(groups) + SumLen(multi_files) + 1

---------------------------------------------------------------------------
(* llm-styleguide-helper.py: process_file_with_gemini *)

\* The most alerts Vale reports on one text.
MaxAlerts == 2

MAX_NO_IMPROVEMENT == 3

pipelineVars == <<inputVars, split_docs, mapVars, reduceVars, mainVars,
                  llm_queries_completed, llm_total_queries, calls, last_invoke>>

\* original_file_path.read_text()
OriginalText == <<"o">>

\* What the gemini process does with one prompt: it fails (non-zero exit,
\* command not found, any exception), or it exits with 0 and an output.
GeminiOutcomes ==
    {[kind |-> "error", stdout |-> << >>],
     [kind |-> "text", stdout |-> <<SP, NL>>],
     [kind |-> "text", stdout |-> <<"p", NL>>],
     [kind |-> "text", stdout |-> <<"q">>]}

\* run_gemini_cli: "" on an error, the stripped output otherwise.
run_gemini_cli(outcome) ==
    IF outcome.kind = "error" THEN << >> ELSE strip(outcome.stdout)

\* The limit tested with > in place of >=.
NoImprovementLimitPassed(count) == count > MAX_NO_IMPROVEMENT

\* if no_improvement_count >= MAX_NO_IMPROVEMENT
NoImprovementLimitReached(count) == count >= MAX_NO_IMPROVEMENT

\* The test written with <=: a tie counts as an improvement.
ImprovesOrTies(count, best) == count <= best

\* if current_alert_count < best_alert_count
Improves(count, best) == count < best

\* process_file_with_gemini is entered; a .fixed file of an earlier run may
\* be there.
GeminiInit ==
    /\ pc = "vale"
    /\ documents = << >>
    /\ PipelineIdle
    /\ CrawlIdle
    /\ UploaderIdle
    /\ SubdirsIdle
    /\ current_content = OriginalText
    /\ best_content = OriginalText
    /\ best_alert_count = NoCount
    /\ current_alert_count = 0
    /\ no_improvement_count = 0
    /\ iteration = 0
    /\ fixed_text = << >>
    /\ fixed_file \in {NoFile, [exists |-> TRUE, text |-> <<"s">>]}
    /\ prompt_file \in {NoFile, [exists |-> TRUE, text |-> <<"s">>]}
    /\ gemini_since_best = 0
    /\ evaluations = << >>
    /\ helper_result = "none"

\* One turn of "while True" from its top to the second break: Vale counts
\* the alerts of current_content, the best is kept, the loop is left when
\* the text is clean or the limit is reached.
ValeIteration ==
    /\ pc = "vale"
    /\ iteration' = iteration + 1
    /\ \E count \in 0..MaxAlerts :
          /\ current_alert_count' = count
          /\ evaluations' = Append(evaluations, [content |-> current_content,
                                                 count |-> count])
          /\ IF best_alert_count # NoCount
             THEN IF Improves(count, best_alert_count)
                  THEN /\ best_alert_count' = count
                       /\ best_content' = current_content
                       /\ no_improvement_count' = 0
                       /\ gemini_since_best' = 0
                  ELSE /\ no_improvement_count' = no_improvement_count + 1
                       /\ UNCHANGED <<best_alert_count, best_content,
                                      gemini_since_best>>
             ELSE /\ best_alert_count' = count
                  /\ gemini_since_best' = 0
                  /\ UNCHANGED <<best_content, no_improvement_count>>
          /\ pc' = IF count = 0 THEN "after_loop"
                   ELSE IF NoImprovementLimitReached(no_improvement_count')
                        THEN "after_loop"
                        ELSE "gemini"
    /\ UNCHANGED <<pipelineVars, crawlVars, uploaderVars, subdirVars, current_content, fixed_text,
                   fixed_file, prompt_file, helper_result>>

\* The rest of the turn: the prompt is written, Gemini is called, the loop
\* is left on an empty answer, the answer otherwise becomes the current
\* content and is written to the .fixed file.
GeminiCall ==
    /\ pc = "gemini"
    /\ prompt_file' = [exists |-> TRUE, text |-> current_content]
    /\ gemini_since_best' = gemini_since_best + 1
    /\ \E outcome \in GeminiOutcomes :
          /\ fixed_text' = run_gemini_cli(outcome)
          /\ IF fixed_text' = << >>
             THEN /\ pc' = "after_loop"
                  /\ UNCHANGED <<current_content, fixed_file>>
             ELSE /\ current_content' = fixed_text'
                  /\ fixed_file' = [exists |-> TRUE, text |-> fixed_text']
                  /\ pc' = "vale"
    /\ UNCHANGED <<pipelineVars, crawlVars, uploaderVars, subdirVars, best_content, best_alert_count,
                   current_alert_count, no_improvement_count, iteration,
                   evaluations, helper_result>>

\* After the loop: the .fixed file is made to hold best_content, the prompt
\* file is removed, True is returned.
FinishFile ==
    /\ pc = "after_loop"
    /\ fixed_file' = [exists |-> TRUE, text |-> best_content]
    /\ prompt_file' = NoFile
    /\ helper_result' = "True"
    /\ pc' = "returned"
    /\ UNCHANGED <<pipelineVars, crawlVars, uploaderVars, subdirVars, current_content, best_content,
                   best_alert_count, current_alert_count,
                   no_improvement_count, iteration, fixed_text,
                   gemini_since_best, evaluations>>

GeminiNext ==
    \/ ValeIteration
    \/ GeminiCall
    \/ FinishFile

\* The function is sequential code: a step that can be taken is taken.
GeminiSpec == GeminiInit /\ [][GeminiNext]_vars /\ WF_vars(GeminiNext)

\* Gemini is about to be called only in a turn whose text has alerts and
\* whose count of turns without improvement is under the limit; the calls
\* since the best count was last set are at most the limit.
C20_Loop ==
    /\ pc = "gemini"
          => /\ current_alert_count # 0
             /\ no_improvement_count < MAX_NO_IMPROVEMENT
    /\ pc \in {"vale", "gemini", "after_loop", "returned"}
          => gemini_since_best <= MAX_NO_IMPROVEMENT

\* The loop is left in the turn where a condition holds: a clean text or
\* the limit reached after Vale, an empty answer after Gemini; it is left
\* for no other reason.
C20_Step ==
    /\ pc = "vale"
          => (pc' = "after_loop"
                 <=> \/ current_alert_count' = 0
                     \/ no_improvement_count' >= MAX_NO_IMPROVEMENT)
    /\ pc = "gemini"
          => (pc' = "after_loop" <=> fixed_text' = << >>)
    /\ pc = "after_loop" => pc' = "returned"

(* C20: process_file_with_gemini terminates for every sequence of Vale    *)
(* alert counts and Gemini responses: the loop is left as soon as the     *)
(* current alert count is 0, Gemini returns an empty text, or 3           *)
(* consecutive turns have not lowered the best alert count; Gemini is not *)
(* called in a turn where the first or the third holds, so at most 3      *)
(* Gemini calls follow the last improvement.                              *)
C20_Terminates ==
    /\ <>(pc = "returned")
    /\ [](C20_Loop)
    /\ [][C20_Step]_vars

C20_Witness ==
    /\ pc = "returned"
    /\ iteration = 5
    /\ best_alert_count = 1
    /\ no_improvement_count = 3
    /\ gemini_since_best = 3

---------------------------------------------------------------------------
\* main has ended without an exception and with an answer.
RunSucceeded == pc \in {"done", "done_write_error"}

(* C22: in every reachable state of a map-reduce run                       *)
(* llm_queries_completed is at most llm_total_queries, and when the run   *)
(* ends successfully the two counters are equal, also in the runs whose   *)
(* Reduce Stage splits into intermediate batches.                         *)
C22_CompletedWithinTotal ==
    /\ llm_queries_completed <= llm_total_queries
    /\ RunSucceeded => llm_queries_completed = llm_total_queries

(* C23: if the crawl and the split produce no segments, the pipeline      *)
(* makes no backend call, never calls reduce_stage, prints no final       *)
(* answer and writes no output file; main enters reduce_stage only with   *)
(* a list of answers that is not empty.                                   *)
C23_NoSegmentsNoWork ==
    /\ pc # "split" /\ split_docs = << >>
          => /\ pc \in {"map_stage", "map_calls", "no_outputs"}
             /\ calls = << >>
             /\ llm_queries_completed = 0
             /\ rs_map_outputs = << >>
             /\ ~final_answer.returned
             /\ ~printed
             /\ output_file.state = "absent"
    /\ pc \in {"reduce_stage", "reduce_chunks", "reduce_final"}
          => rs_map_outputs # << >>

C23_Witness ==
    /\ pc = "no_outputs"
    /\ documents = << >>
    /\ split_docs = << >>
    /\ groups = << >>
    /\ calls = << >>

---------------------------------------------------------------------------
\* The least count Vale reported, and the first evaluation that has it.
MinCount ==
    CHOOSE c \in 0..MaxAlerts :
        /\ \E k \in 1..Len(evaluations) : evaluations[k].count = c
        /\ \A k \in 1..Len(evaluations) : evaluations[k].count >= c

FirstAtMin ==
    CHOOSE k \in 1..Len(evaluations) :
        /\ evaluations[k].count = MinCount
        /\ \A j \in 1..(k - 1) : evaluations[j].count # MinCount

\* From the first evaluation on, the best count is the least count reported
\* and the best content is the earliest version that has it; at the return
\* the .fixed file holds it.
C24_Best ==
    /\ evaluations # << >>
          => /\ best_alert_count = MinCount
             /\ best_content = evaluations[FirstAtMin].content
    /\ pc = "returned"
          => /\ evaluations # << >>
             /\ fixed_file.exists
             /\ fixed_file.text = best_content

\* Once set, the best count is not raised and not unset.
C24_Step ==
    best_alert_count # NoCount
        => /\ best_alert_count' # NoCount
           /\ best_alert_count' <= best_alert_count

(* C24: in process_file_with_gemini best_alert_count never increases      *)
(* across iterations and is the Vale alert count of best_content; when    *)
(* the function returns, the .fixed file holds best_content, the earliest *)
(* evaluated version (the original included) that reached the least alert *)
(* count among all versions Vale evaluated, not merely the last Gemini    *)
(* output.                                                                *)
C24_BestContent == [](C24_Best) /\ [][C24_Step]_vars

C24_Witness ==
    /\ pc = "returned"
    /\ Len(evaluations) = 4
    /\ evaluations[1].count = 2
    /\ evaluations[2].count = 1
    /\ evaluations[4].count = 1
    /\ best_content = <<"p">>
    /\ current_content = <<"q">>
    /\ fixed_file.text = <<"p">>

\* The loop was left because run_gemini_cli returned no text.
GeminiFailed == fixed_text = << >> /\ gemini_since_best > 0

(* C25: process_file_with_gemini returns True if the processing was       *)
(* successful and False otherwise: it returns False when the Gemini CLI   *)
(* fails and yields no fixed text, so that main reports the file failed.  *)
C25_ReturnValue ==
    pc = "returned"
        => helper_result = (IF GeminiFailed THEN "False" ELSE "True")

\* ---------------------------------------------------------------------
\* open-webui-knowledge.py: the knowledge uploader
\* ---------------------------------------------------------------------

\* The most files the walk of the uploader yields.
MaxUploads == 3

\* args.knowledge, and the name of another knowledge of the server.
KnowledgeName == "k"
OtherName == "other"

\* The knowledges of the server when the script starts: one of another
\* name, and one of the name asked for or none.
ExistingId == 1
OtherId == 2
CreatedId == 3
ServerStates ==
    {{[id |-> OtherId, name |-> OtherName]},
     {[id |-> OtherId, name |-> OtherName],
      [id |-> ExistingId, name |-> KnowledgeName]}}

\* The files of the walk, in walk order: whether any pattern of
\* regex_patterns is found in the path.
UploadWalks == UNION {[1..n -> [matches : BOOLEAN]] : n \in 0..MaxUploads}

\* What a request does: an answer with status 200, an answer with another
\* status, or an exception of requests.
Answers == {"200", "not_200", "raises"}

\* What the upload of a file does: as Answers, and an answer of status 200
\* whose JSON has no id.
UploadAnswers == Answers \cup {"200_no_id"}

\* One REST call of the history.
Request(op, id, file, answer) ==
    [op |-> op, id |-> id, file |-> file, answer |-> answer]

\* find_knowledge_by_name: the id of the item of the name, None if none
find_knowledge_by_name(knowledge_list, name) ==
    IF \E k \in knowledge_list : k.name = name
    THEN (CHOOSE k \in knowledge_list : k.name = name).id
    ELSE NoKnowledge

\* main keeps the existing knowledge with no test of args.append.
KeepsExistingAlways(existing, append_flag) == existing # NoKnowledge

\* main: "if existing_knowledge:" and under it "if args.append:"
KeepsExisting(existing, append_flag) == existing # NoKnowledge /\ append_flag

\* upload_file returns an id for every answer of status 200.
upload_fileOnStatus(answer, path) ==
    IF answer \in {"200", "200_no_id"} THEN path ELSE NoFileId

\* upload_file: the id of the JSON of an answer of status 200, else None.
\* The id the server gives the i-th file of the walk is written i.
upload_file(answer, path) == IF answer = "200" THEN path ELSE NoFileId

\* delete_knowledge: sys.exit(1) in the except branch only; another status
\* than 200 prints a warning and returns.
delete_knowledgeExits(answer) == answer = "raises"

UploaderInit ==
    /\ pc = "find_knowledge"
    /\ documents = << >>
    /\ PipelineIdle
    /\ CrawlIdle
    /\ GeminiIdle
    /\ SubdirsIdle
    /\ append \in BOOLEAN
    /\ server_knowledge \in ServerStates
    /\ server_attached = {}
    /\ existing_knowledge = NoKnowledge
    /\ knowledge_id = NoKnowledge
    /\ upload_files \in UploadWalks
    /\ upload_pos = 0
    /\ file_counter = 0
    /\ file_id = NoFileId
    /\ requests = << >>

notUploaderVars == <<pipelineVars, crawlVars, geminiVars, subdirVars>>

\* main line 125: find_knowledge_by_name(list_knowledge(...), args.knowledge),
\* and the branch of lines 127-137 it selects.  list_knowledge leaves with
\* sys.exit(1) on another status than 200 and on an exception.
FindKnowledge ==
    /\ pc = "find_knowledge"
    /\ \E answer \in Answers :
         /\ requests' = Append(requests,
                               Request("list", NoKnowledge, NoFileId, answer))
         /\ IF answer # "200"
            THEN /\ pc' = "exited"
                 /\ UNCHANGED <<existing_knowledge, knowledge_id>>
            ELSE LET existing ==
                         find_knowledge_by_name(server_knowledge, KnowledgeName)
                 IN  /\ existing_knowledge' = existing
                     /\ knowledge_id' = existing
                     /\ pc' = IF KeepsExisting(existing, append) THEN "walk"
                              ELSE IF existing # NoKnowledge THEN "delete"
                              ELSE "create"
    /\ UNCHANGED <<notUploaderVars, append, server_knowledge, server_attached,
                   upload_files, upload_pos, file_counter, file_id>>

\* main line 132: delete_knowledge(token, url, knowledge_id)
DeleteKnowledge ==
    /\ pc = "delete"
    /\ \E answer \in Answers :
         /\ requests' = Append(requests,
                               Request("delete", knowledge_id, NoFileId, answer))
         /\ server_knowledge' =
                IF answer = "200"
                THEN {k \in server_knowledge : k.id # knowledge_id}
                ELSE server_knowledge
         /\ pc' = IF delete_knowledgeExits(answer) THEN "exited" ELSE "create"
    /\ UNCHANGED <<notUploaderVars, append, server_attached, existing_knowledge,
                   knowledge_id, upload_files, upload_pos, file_counter,
                   file_id>>

\* main lines 133-134 and 136-137: create_knowledge, and knowledge_id is the
\* id of what it returns.  create_knowledge leaves with sys.exit(1) on
\* another status than 200 and on an exception.
CreateKnowledge ==
    /\ pc = "create"
    /\ \E answer \in Answers :
         /\ requests' = Append(requests,
                               Request("create", CreatedId, NoFileId, answer))
         /\ IF answer = "200"
            THEN /\ server_knowledge' = server_knowledge \cup
                        {[id |-> CreatedId, name |-> KnowledgeName]}
                 /\ knowledge_id' = CreatedId
                 /\ pc' = "walk"
            ELSE /\ pc' = "exited"
                 /\ UNCHANGED <<server_knowledge, knowledge_id>>
    /\ UNCHANGED <<notUploaderVars, append, server_attached, existing_knowledge,
                   upload_files, upload_pos, file_counter, file_id>>

\* main lines 144-146: a file of the walk no pattern is found in.
SkipUpload ==
    /\ pc = "walk"
    /\ upload_pos < Len(upload_files)
    /\ ~upload_files[upload_pos + 1].matches
    /\ upload_pos' = upload_pos + 1
    /\ UNCHANGED <<notUploaderVars, pc, append, server_knowledge,
                   server_attached, existing_knowledge, knowledge_id,
                   upload_files, file_counter, file_id, requests>>

\* main lines 146-149: file_counter += 1, file_id = upload_file(...), and
\* "if file_id:".
UploadFile ==
    /\ pc = "walk"
    /\ upload_pos < Len(upload_files)
    /\ upload_files[upload_pos + 1].matches
    /\ file_counter' = file_counter + 1
    /\ \E answer \in UploadAnswers :
         LET path == upload_pos + 1
             got == upload_file(answer, path)
         IN  /\ requests' = Append(requests,
                                   Request("upload", NoKnowledge, path, answer))
             /\ file_id' = got
             /\ IF got # NoFileId
                THEN pc' = "attach" /\ UNCHANGED upload_pos
                ELSE pc' = "walk" /\ upload_pos' = upload_pos + 1
    /\ UNCHANGED <<notUploaderVars, append, server_knowledge, server_attached,
                   existing_knowledge, knowledge_id, upload_files>>

\* main line 150: add_file_id_to_knowledge(token, url, knowledge_id, file_id),
\* which returns whatever the request does.
AttachFile ==
    /\ pc = "attach"
    /\ \E answer \in Answers :
         /\ requests' = Append(requests,
                               Request("attach", knowledge_id, file_id, answer))
         /\ server_attached' =
                IF answer = "200"
                THEN server_attached \cup {<<knowledge_id, file_id>>}
                ELSE server_attached
    /\ upload_pos' = upload_pos + 1
    /\ pc' = "walk"
    /\ UNCHANGED <<notUploaderVars, append, server_knowledge,
                   existing_knowledge, knowledge_id, upload_files,
                   file_counter, file_id>>

\* main: the walk is over.
UploaderReturn ==
    /\ pc = "walk"
    /\ upload_pos = Len(upload_files)
    /\ pc' = "uploaded"
    /\ UNCHANGED <<notUploaderVars, uploaderVars>>

UploaderNext ==
    \/ FindKnowledge
    \/ DeleteKnowledge
    \/ CreateKnowledge
    \/ SkipUpload
    \/ UploadFile
    \/ AttachFile
    \/ UploaderReturn

UploaderSpec == UploaderInit /\ [][UploaderNext]_vars

\* The places of the history where a call of the kind was made, and where
\* it was answered with status 200.
Calls(op) == {i \in 1..Len(requests) : requests[i].op = op}
Answered(op) == {i \in Calls(op) : requests[i].answer = "200"}

\* The knowledge exists when the script asks for the list.
KnowledgeFound == Answered("list") # {} /\ existing_knowledge # NoKnowledge
KnowledgeMissing == Answered("list") # {} /\ existing_knowledge = NoKnowledge

\* C21: with --append and an existing knowledge of the name the run makes no
\* delete call and no create call and attaches every file to the existing
\* id; without --append an existing knowledge gets its delete call before
\* the create call and every file is attached to the newly created id; when
\* none exists one is created and gets the files; and no file is uploaded
\* before the knowledge id is resolved.
C21_KnowledgeMode ==
    /\ KnowledgeFound /\ append =>
          /\ Calls("delete") = {} /\ Calls("create") = {}
          /\ \A a \in Calls("attach") : requests[a].id = existing_knowledge
    /\ KnowledgeFound /\ ~append =>
          /\ \A c \in Calls("create") :
                \E d \in Calls("delete") :
                    d < c /\ requests[d].id = existing_knowledge
          /\ pc \in {"walk", "attach", "uploaded"} => Answered("create") # {}
          /\ \A a \in Calls("attach") :
                /\ requests[a].id = CreatedId
                /\ requests[a].id # existing_knowledge
    /\ KnowledgeMissing =>
          /\ Calls("delete") = {}
          /\ pc \in {"walk", "attach", "uploaded"} => Answered("create") # {}
          /\ \A a \in Calls("attach") : requests[a].id = CreatedId
    /\ \A u \in Calls("upload") \cup Calls("attach") :
          /\ knowledge_id # NoKnowledge
          /\ \/ \E c \in Answered("create") : c < u
             \/ /\ append
                /\ \E l \in Answered("list") : l < u
                /\ existing_knowledge # NoKnowledge
    /\ Cardinality(Calls("list")) <= 1
    /\ Cardinality(Calls("create")) <= 1

\* A run with --append that attached a file to the existing knowledge.
C21_Witness ==
    /\ pc = "uploaded"
    /\ append
    /\ <<ExistingId, 1>> \in server_attached
    /\ Len(upload_files) = MaxUploads

\* A run without --append that replaced the knowledge and attached a file
\* to the new one.
C21_WitnessReplaced ==
    /\ pc = "uploaded"
    /\ ~append
    /\ existing_knowledge = ExistingId
    /\ <<CreatedId, 1>> \in server_attached

\* The files of the walk visited so far that a pattern is found in.
Visited ==
    {i \in 1..(IF pc = "attach" THEN upload_pos + 1 ELSE upload_pos) :
        upload_files[i].matches}

\* C26: a file is attached to the knowledge only after its own upload was
\* answered with status 200 and a file id, and a failed upload or a failed
\* attach never stops the walk: every matching file visited is uploaded,
\* once, and the walk ends only after the last file.
C26_AttachAfterUpload ==
    /\ \A a \in Calls("attach") :
          /\ a > 1
          /\ requests[a - 1].op = "upload"
          /\ requests[a - 1].answer = "200"
          /\ requests[a - 1].file = requests[a].file
          /\ requests[a].file # NoFileId
    /\ pc \in {"walk", "attach", "uploaded"} =>
          /\ {requests[u].file : u \in Calls("upload")} = Visited
          /\ Cardinality(Calls("upload")) = Cardinality(Visited)
          /\ file_counter = Cardinality(Visited)
    /\ pc = "uploaded" => upload_pos = Len(upload_files)
    /\ pc = "exited" => Calls("upload") = {}

\* A walk of three matching files: the upload of the first fails, the
\* attach of the second fails, the third is uploaded and attached.
C26_Witness ==
    /\ pc = "uploaded"
    /\ Len(upload_files) = 3
    /\ \E u \in Calls("upload") :
          requests[u].file = 1 /\ requests[u].answer # "200"
    /\ \E a \in Calls("attach") :
          requests[a].file = 2 /\ requests[a].answer # "200"
    /\ <<knowledge_id, 3>> \in server_attached

\* The knowledges of the server that carry the name asked for.
Named == {k \in server_knowledge : k.name = KnowledgeName}

\* C27: without --append the replacement knowledge is created only after
\* the existing knowledge of the name was successfully deleted, so that
\* after the run the server holds one knowledge of the name at most.
C27_CreateAfterDeleted ==
    /\ ~append /\ KnowledgeFound =>
          \A c \in Calls("create") : \E d \in Answered("delete") : d < c
    /\ pc = "uploaded" => Cardinality(Named) <= 1

\* ---------------------------------------------------------------------
\* map-reduce-subdirs.py: the wrapper that runs map-reduce.py once for
\* each first-level subdirectory
\* ---------------------------------------------------------------------

\* The names of the first-level subdirectories.
DirNames == {"a", "B", "c"}

\* s.lower()
Lower(s) == IF s = "B" THEN "b" ELSE s

\* The code point of a one-letter name: what Python compares strings by.
CodePoint(s) ==
    CASE s = "B" -> 66
      [] s = "a" -> 97
      [] s = "b" -> 98
      [] s = "c" -> 99

\* sorted(subdirs) with no key.
SortKeyPlain(s) == CodePoint(s)

\* key=lambda s: s.lower()
SortKey(s) == CodePoint(Lower(s))

\* sorted(subdirs, key=...): a stable sort, the first item of the least
\* key first.
RECURSIVE sorted(_)
sorted(seq) ==
    IF seq = << >> THEN << >>
    ELSE LET m == CHOOSE i \in 1..Len(seq) :
                     /\ \A j \in 1..Len(seq) : SortKey(seq[i]) <= SortKey(seq[j])
                     /\ \A j \in 1..(i - 1) : SortKey(seq[j]) # SortKey(seq[i])
             rest == [k \in 1..(Len(seq) - 1) |->
                         IF k < m THEN seq[k] ELSE seq[k + 1]]
         IN  <<seq[m]>> \o sorted(rest)

\* os.listdir(parent_dir): any subdirectories, in any order.
Listings ==
    UNION {{s \in [1..n -> DirNames] :
               \A i, j \in 1..n : i # j => s[i] # s[j]} :
           n \in 0..Cardinality(DirNames)}

\* The output file of a subdirectory, f"{item}.txt" in the current
\* directory, is written by the name of the subdirectory; "old" is the
\* content of a file that was there when the wrapper started.
OutputFile(item, content) == [name |-> item, content |-> content]

\* The output files the current directory can hold at the start.
OutputSets == SUBSET {OutputFile(item, "old") : item \in DirNames}

\* The options of the wrapper that are forwarded only when given.
OptionalOptions ==
    {"-q", "-f", "-t", "-x", "-K", "-P", "-g", "-z", "-n", "-e"}

\* The command lines of the wrapper: no optional option, or one of them.
UserOptionSets == {{}} \cup {{o} : o \in OptionalOptions}

\* "if args.<option> is not None: additional_options += [...]"
Option(flag, given) == IF flag \in given THEN <<flag>> ELSE << >>

\* main lines 57-84: the flags of additional_options, in order.  --path has
\* the default ".*", so -p is always forwarded.
additional_options(given) ==
    <<"-p">> \o Option("-q", given) \o Option("-f", given)
      \o <<"-m", "-c", "-o">>
      \o Option("-t", given) \o Option("-x", given) \o Option("-K", given)
      \o Option("-P", given) \o Option("-g", given)
      \o <<"-s">>
      \o Option("-z", given) \o Option("-n", given) \o Option("-e", given)

\* main line 102: the flags of cmd.
cmd(given) == <<"-d", "-u">> \o additional_options(given)

\* map-reduce.py lines 304-333: the options its parser defines.
ParserOptions ==
    {"-d", "-p", "-q", "-f", "-m", "-c", "-o", "-t", "-x", "-u", "-s", "-z",
     "-l", "-n", "-e"}

\* parse_args of map-reduce.py takes the command line.
Parses(command) == \A i \in 1..Len(command) : command[i] \in ParserOptions

\* What a run of the child does: argparse leaves with status 2 on an
\* option it does not define; else the run writes the output file and
\* leaves with 0, leaves with 0 and no output (no document, no answer, a
\* failed write), or leaves with 1 on an exception.
ChildRuns(command) ==
    IF ~Parses(command) THEN {[exit |-> 2, writes |-> FALSE]}
    ELSE {[exit |-> 0, writes |-> TRUE], [exit |-> 0, writes |-> FALSE],
          [exit |-> 1, writes |-> FALSE]}

\* The test of the output file left out.
OutputExistsNever(item, files) == FALSE

\* os.path.exists(output_file)
OutputExists(item, files) == \E f \in files : f.name = item

\* subprocess.run(cmd) with no check.
RunRaisesNever(exit) == FALSE

\* subprocess.run(cmd, check=True) raises CalledProcessError
RunRaises(exit) == exit # 0

\* The current directory after a run of the child.
AfterChild(files, item, run) ==
    IF run.writes
    THEN {f \in files : f.name # item} \cup {OutputFile(item, "new")}
    ELSE files

SubdirsInit ==
    /\ pc = "wrapper"
    /\ documents = << >>
    /\ PipelineIdle
    /\ CrawlIdle
    /\ GeminiIdle
    /\ UploaderIdle
    /\ log_mode \in BOOLEAN
    /\ user_options \in UserOptionSets
    /\ subdirs \in Listings
    /\ item_pos = 0
    /\ cwd_files \in OutputSets
    /\ launches = << >>
    /\ reported = << >>

notSubdirVars == <<pipelineVars, crawlVars, geminiVars, uploaderVars>>

\* The item of the turn of "for item in sorted(subdirs, ...)" to come.
NextItem == sorted(subdirs)[item_pos + 1]

\* main lines 96-98: the output file exists, continue.
SkipItem ==
    /\ pc = "wrapper"
    /\ item_pos < Len(subdirs)
    /\ OutputExists(NextItem, cwd_files)
    /\ item_pos' = item_pos + 1
    /\ UNCHANGED <<notSubdirVars, pc, log_mode, user_options, subdirs,
                   cwd_files, launches, reported>>

\* main lines 104-121: with --log the child is started with Popen, its
\* output is copied, process.wait() is called and its value dropped, and
\* "Output saved to" is printed.
RunChildLogged ==
    /\ pc = "wrapper"
    /\ item_pos < Len(subdirs)
    /\ ~OutputExists(NextItem, cwd_files)
    /\ log_mode
    /\ \E run \in ChildRuns(cmd(user_options)) :
         /\ launches' = Append(launches,
                               [item |-> NextItem, cmd |-> cmd(user_options),
                                exit |-> run.exit])
         /\ cwd_files' = AfterChild(cwd_files, NextItem, run)
    /\ reported' = Append(reported, NextItem)
    /\ item_pos' = item_pos + 1
    /\ UNCHANGED <<notSubdirVars, pc, log_mode, user_options, subdirs>>

\* main lines 122-124: subprocess.run(cmd, check=True), then "Output saved
\* to"; the exception of a non-zero status is not caught.
RunChild ==
    /\ pc = "wrapper"
    /\ item_pos < Len(subdirs)
    /\ ~OutputExists(NextItem, cwd_files)
    /\ ~log_mode
    /\ \E run \in ChildRuns(cmd(user_options)) :
         /\ launches' = Append(launches,
                               [item |-> NextItem, cmd |-> cmd(user_options),
                                exit |-> run.exit])
         /\ cwd_files' = AfterChild(cwd_files, NextItem, run)
         /\ IF RunRaises(run.exit)
            THEN /\ pc' = "wrapper_aborted"
                 /\ UNCHANGED <<reported, item_pos>>
            ELSE /\ reported' = Append(reported, NextItem)
                 /\ item_pos' = item_pos + 1
                 /\ pc' = pc
    /\ UNCHANGED <<notSubdirVars, log_mode, user_options, subdirs>>

\* main: the loop is over.
WrapperReturn ==
    /\ pc = "wrapper"
    /\ item_pos = Len(subdirs)
    /\ pc' = "wrapper_done"
    /\ UNCHANGED <<notSubdirVars, subdirVars>>

SubdirsNext ==
    \/ SkipItem
    \/ RunChildLogged
    \/ RunChild
    \/ WrapperReturn

SubdirsSpec == SubdirsInit /\ [][SubdirsNext]_vars

\* The items the child was run for, and the output files of the start.
Launched == {launches[i].item : i \in 1..Len(launches)}
OldOutputs == {f \in cwd_files : f.content = "old"}

\* The child is run for the subdirectories in case-insensitive name
\* order, once each at most, and for none with an output file of the start;
\* a finished wrapper has run it for every subdirectory without one.
C28_Inv ==
    /\ \A i, j \in 1..Len(launches) :
          i < j => CodePoint(Lower(launches[i].item))
                       < CodePoint(Lower(launches[j].item))
    /\ \A i \in 1..Len(launches) :
          /\ \E k \in 1..Len(subdirs) : subdirs[k] = launches[i].item
          /\ OutputFile(launches[i].item, "old") \notin cwd_files
    /\ pc = "wrapper_done" =>
          \A k \in 1..Len(subdirs) :
              subdirs[k] \in Launched
                  <=> OutputFile(subdirs[k], "old") \notin cwd_files

\* A step runs one child at most, for an item with no output file, and
\* leaves the output files of the start as they are.
C28_Step ==
    /\ OldOutputs' = OldOutputs
    /\ launches' # launches =>
          /\ Len(launches') = Len(launches) + 1
          /\ \A f \in cwd_files : f.name # launches'[Len(launches')].item

\* C28: the wrapper processes the first-level subdirectories one at a time
\* in case-insensitive name order and never launches the child for a
\* subdirectory whose output file is in the current directory, which it
\* leaves untouched, so a run over the outputs of an earlier run goes on
\* with the subdirectories that have none.
C28_SortedAndSkipped == [](C28_Inv) /\ [][C28_Step]_vars

\* A listing in the order c, B, a where a has an output already: the child
\* was run for B and then for c.
C28_Witness ==
    /\ pc = "wrapper_done"
    /\ subdirs = <<"c", "B", "a">>
    /\ OutputFile("a", "old") \in cwd_files
    /\ Len(launches) = 2
    /\ launches[1].item = "B"
    /\ launches[2].item = "c"

\* The items of the child runs, in order, and of those that left with 0.
LaunchedItems == [i \in 1..Len(launches) |-> launches[i].item]
Failures == {i \in 1..Len(launches) : launches[i].exit # 0}

\* C29: when the child leaves with a non-zero status the wrapper without
\* --log aborts at once, with no report and no later subdirectory
\* processed; with --log the status is ignored, "Output saved to" is
\* reported and every remaining subdirectory is processed.
C29_ChildFailure ==
    /\ ~log_mode =>
          /\ \A i \in Failures : i = Len(launches) /\ pc = "wrapper_aborted"
          /\ pc = "wrapper_aborted" => Failures # {}
          /\ reported = SubSeq(LaunchedItems, 1,
                               Len(launches) - Cardinality(Failures))
    /\ log_mode =>
          /\ pc # "wrapper_aborted"
          /\ reported = LaunchedItems
          /\ pc = "wrapper_done" =>
                \A k \in 1..Len(subdirs) :
                    \/ subdirs[k] \in Launched
                    \/ OutputFile(subdirs[k], "old") \in cwd_files

\* With --log: the child of the first of three subdirectories failed and
\* the two others were processed.
C29_Witness ==
    /\ log_mode
    /\ pc = "wrapper_done"
    /\ Len(launches) = 3
    /\ launches[1].exit = 1
    /\ launches[2].exit = 0
    /\ Len(reported) = 3

\* Without --log: the child of the first of three subdirectories failed
\* and the wrapper stopped there.
C29_WitnessAborted ==
    /\ ~log_mode
    /\ pc = "wrapper_aborted"
    /\ Len(subdirs) = 3
    /\ cwd_files = {}
    /\ Len(launches) = 1
    /\ reported = << >>

\* C30: every option the wrapper places on the command line of the child
\* is an option the parser of map-reduce.py defines, so the child parses
\* every command line it is given.
C30_OptionsAccepted ==
    \A i \in 1..Len(launches) :
        /\ \A k \in 1..Len(launches[i].cmd) :
              launches[i].cmd[k] \in ParserOptions
        /\ launches[i].exit # 2

===========================================================================
